---- MODULE Spec2Model ----
(***************************************************************************)
(* Transient circuit simulator (simulador): the Circuito facade, its index *)
(* binding, the transient stepper with its Newton-Raphson driver, and the  *)
(* Resultado trajectory.                                                   *)
(*                                                                         *)
(* Units.  Voltages and currents are integers in units of 1e-5 (so that    *)
(* TOLERANCIA = 0.00001 is 1).  Times are floating-point numbers with a    *)
(* MantBits-bit significand, held as integers in quanta; FlAdd is the      *)
(* rounded sum.  A step size is a pair <<num, den>> meaning num/den.       *)
(* Python list indices are 0-based: the model keeps the 0-based values and *)
(* reads position p of a list at p + 1 of the sequence.                    *)
(***************************************************************************)
EXTENDS Integers, Sequences, FiniteSets, TLC

(* ------------------------------ bounds -------------------------------- *)
MaxComps == 2
MantBits == 3
MaxAmostras == 4
StreamLen == 3
MaxRuns == 2

(* ------------------------- program constants -------------------------- *)
GND == "0"
N_MAX == 20
M_MAX == 100
STEP_FACTOR == 1000000000
TOLERANCIA == 1

(* ------------------- component variants (class attributes) ------------ *)
Tipos == {"R", "L", "C", "N", "E", "F", "G", "H", "D", "O", "M", "I", "V"}

linear(tipo) == tipo \notin {"N", "D", "M"}

num_nos(tipo) ==
    CASE tipo \in {"R", "L", "C", "N", "D", "I", "V"} -> 2
      [] tipo \in {"O", "M"} -> 3
      [] tipo \in {"E", "F", "G", "H"} -> 4

num_nos_mod(tipo) ==
    CASE tipo \in {"R", "C", "N", "G", "D", "M", "I"} -> 0
      [] tipo \in {"L", "E", "F", "O", "V"} -> 1
      [] tipo = "H" -> 2

(* Python numbers are held as the text str() prints for them: "1" is the   *)
(* int 1, "1.0" the float 1.0.  float(s) is the float a numeral denotes,   *)
(* "ValueError" when s is no numeral                                       *)
float(s) ==
    CASE s \in {"0", "0.0", "0e0"} -> "0.0"
      [] s \in {"1", "1.0", "1e0"} -> "1.0"
      [] s \in {"2", "2.0"} -> "2.0"
      [] s \in {"1000", "1000.0", "1e3"} -> "1000.0"
      [] s \in {"3e-05", "3e-5", "0.00003"} -> "3e-05"
      [] s \in {"4", "4.0"} -> "4.0"
      [] s \in {"-1", "-1.0"} -> "-1.0"
      [] s \in {"-2", "-2.0"} -> "-2.0"
      [] OTHER -> "ValueError"

(* str(int(s)): "ValueError" when s is no integer numeral *)
int(s) ==
    CASE s \in {"0", "1", "2", "1000"} -> s
      [] OTHER -> "ValueError"

(* the value of a number, in units of 1e-5 *)
Val(n) ==
    CASE float(n) = "0.0" -> 0
      [] float(n) = "1.0" -> 100000
      [] float(n) = "2.0" -> 200000
      [] float(n) = "1000.0" -> 100000000
      [] float(n) = "3e-05" -> 3
      [] float(n) = "4.0" -> 400000
      [] float(n) = "-1.0" -> -100000
      [] float(n) = "-2.0" -> -200000

(* the arguments the constructors take after name and nodes; ic = 0.0 is   *)
(* the default of Indutor and Capacitor                                    *)
ArgsPadrao(tipo) ==
    CASE tipo \in {"R", "E", "F", "G", "H"} -> <<"1.0">>
      [] tipo \in {"L", "C"} -> <<"1.0", "0.0">>
      [] tipo = "N" -> <<"1.0", "1.0", "1.0", "1.0", "1.0", "1.0", "1.0", "1.0">>
      [] tipo = "M" -> <<"N", "1.0", "1.0", "1.0", "1.0", "1.0">>
      [] tipo \in {"I", "V"} -> <<"DC", "1.0">>
      [] OTHER -> <<>>

(* Indutor.ic, Capacitor.ic *)
ic(com) == com.args[2]

(* str(com).split(' ')[0]: the variant letter followed by the name *)
Rotulo(com) == com.tipo \o com.name

(* ------------------------------ helpers ------------------------------- *)
Abs(x) == IF x < 0 THEN -x ELSE x

Max(S) == CHOOSE m \in S : \A y \in S : y <= m

Contem(seq, x) == \E k \in 1..Len(seq) : seq[k] = x

(* list.index(x): 0-based position of the first occurrence *)
IndexOf(seq, x) ==
    (CHOOSE k \in 1..Len(seq) : seq[k] = x /\ \A j \in 1..(k - 1) : seq[j] # x) - 1

RECURSIVE Pow2(_)
Pow2(n) == IF n = 0 THEN 1 ELSE 2 * Pow2(n - 1)

(* the unit in the last place of a non-negative x that has MantBits bits *)
RECURSIVE Ulp(_, _)
Ulp(x, u) == IF x < Pow2(MantBits) * u THEN u ELSE Ulp(x, 2 * u)

(* round to nearest, ties to even, at MantBits significant bits *)
FlRound(x) ==
    IF x < 0 THEN 0 - (LET u == Ulp(-x, 1)
                           q == (-x) \div u
                           r == (-x) % u
                       IN  IF 2 * r > u \/ (2 * r = u /\ q % 2 = 1)
                           THEN (q + 1) * u ELSE q * u)
    ELSE LET u == Ulp(x, 1)
             q == x \div u
             r == x % u
         IN  IF 2 * r > u \/ (2 * r = u /\ q % 2 = 1)
             THEN (q + 1) * u ELSE q * u

(* line 198: tempo += self.passo, a floating-point sum *)
FlAdd(a, b) == FlRound(a + b)

(* ------------------------------- state -------------------------------- *)
VARIABLES
    componentes,          \* Circuito.__componentes
    tempo_total,          \* Circuito.tempo_total
    passo,                \* Circuito.passo
    tipo_simulacao,       \* Circuito.tipo_simulacao
    passo_interno,        \* Circuito.passo_interno
    nos,                  \* Circuito.__nos
    posicao_nos,          \* per component: Componente._posicao_nos
    nos_mod,              \* per component: Componente._nos_mod
    com_passo,            \* per component: Componente.passo
    com_previous,         \* per component: Capacitor/Indutor.previous
    pc,                   \* position in run()
    com_idx,              \* the for loop of lines 101-111
    nao_linear,
    num_vars,
    tempo,
    max_internal_step,
    passo_run,            \* run()'s local passo
    previous,
    passo_interno_atual,
    n_guesses,
    n_newton_raphson,
    tensoes,
    resultado,            \* the Resultado under construction
    sol_vals,             \* the values a solved unknown of this circuit can take
    stream,               \* the numbers the generator yields after seed(512)
    rng,                  \* how many numbers were drawn since the seed
    iteracoes,            \* stamp+solve passes made in the current sub-solve
    arquivo,              \* lines written by export
    erro,                 \* the exception that ended the call, "" when none
    simulacao,            \* Circuito.simulacao, as its first character and the rest
    retorno,              \* what each run() call made so far gave its caller
    memo,                 \* the systems solved so far, each with its solution
    com_hist,             \* per component: the history term its last stamp used
    first_iter,           \* per component: Mosfet.first_iter
    chute,                \* the guess the last stamp pass was handed
    netlist,              \* the lines of the file import_netlist reads
    importado,            \* what import_netlist gave its caller
    matrizGn,             \* the matrix a stamp is applied to
    matrizI,              \* the vector a stamp is applied to
    chamada               \* the last call made on the component container

vars == <<componentes, tempo_total, passo, tipo_simulacao, passo_interno, nos,
          posicao_nos, nos_mod, com_passo, com_previous, pc, com_idx,
          nao_linear, num_vars, tempo, max_internal_step, passo_run, previous,
          passo_interno_atual, n_guesses, n_newton_raphson, tensoes, resultado,
          sol_vals, stream, rng, iteracoes, arquivo, erro, simulacao, retorno,
          memo, com_hist, first_iter, chute, netlist, importado, matrizGn,
          matrizI, chamada>>

circuito == <<componentes, tempo_total, passo, tipo_simulacao, passo_interno,
              sol_vals, stream>>

ligacao == <<posicao_nos, nos_mod>>

estampas == <<netlist, importado, matrizGn, matrizI, chamada>>

extras == <<simulacao, retorno, memo, com_hist, first_iter, chute, estampas>>

locais == <<nao_linear, num_vars, tempo, max_internal_step, passo_run, previous,
            passo_interno_atual, n_guesses, n_newton_raphson, tensoes, iteracoes>>

(* ------------------------------ inputs -------------------------------- *)
Labels == {"0", "1", "2"}

(* the component shapes the circuits are built from: every two-terminal    *)
(* placement of R, L and D, and H with two controlling pairs               *)
Formas ==
    {[tipo |-> t, nos |-> <<a, b>>] : t \in {"R", "L", "D"}, a \in Labels, b \in Labels}
    \cup {[tipo |-> "H", nos |-> <<a, b>> \o cd] :
              a \in Labels, b \in Labels, cd \in {<<"1", "0">>, <<"2", "1">>}}

Montar(f) ==
    [i \in 1..Len(f) |->
        [tipo |-> f[i].tipo, name |-> ToString(i), nos |-> f[i].nos,
         args |-> IF "args" \in DOMAIN f[i] THEN f[i].args ELSE ArgsPadrao(f[i].tipo)]]

(* self.previous = ic in the constructors of Indutor and Capacitor *)
PreviousInicial(com) == IF com.tipo \in {"L", "C"} THEN Val(ic(com)) ELSE 0

Circuitos(n) == {Montar(f) : f \in [1..n -> Formas]}

RandVals == {0, 3}

SolVals == {0, 3}

Streams == [1..StreamLen -> RandVals]

(* Circuito.__init__ and the appends that built the component list; every  *)
(* component as its constructor leaves it                                  *)
InitArq(comps, tt, p, ts, pi, sv, st, f) ==
    /\ componentes = comps
    /\ tempo_total = tt
    /\ passo = p
    /\ tipo_simulacao = ts
    /\ passo_interno = pi
    /\ sol_vals = sv
    /\ stream = st
    /\ nos = <<>>
    /\ posicao_nos = [i \in 1..Len(comps) |-> <<>>]
    /\ nos_mod = [i \in 1..Len(comps) |-> <<>>]
    /\ com_passo = [i \in 1..Len(comps) |-> <<0, 1>>]
    /\ com_previous = [i \in 1..Len(comps) |-> PreviousInicial(comps[i])]
    /\ pc = "idle"
    /\ com_idx = 0
    /\ nao_linear = FALSE
    /\ num_vars = 0
    /\ tempo = 0
    /\ max_internal_step = 0
    /\ passo_run = <<0, 1>>
    /\ previous = <<>>
    /\ passo_interno_atual = 0
    /\ n_guesses = 0
    /\ n_newton_raphson = 0
    /\ tensoes = <<>>
    /\ resultado = [nos |-> <<>>, t |-> <<>>, resultado |-> <<>>]
    /\ rng = 0
    /\ iteracoes = 0
    /\ arquivo = <<>>
    /\ erro = ""
    /\ simulacao = <<".", "TRAN">>
    /\ retorno = <<>>
    /\ memo = {}
    /\ com_hist = [i \in 1..Len(comps) |-> <<>>]
    /\ first_iter = [i \in 1..Len(comps) |-> FALSE]
    /\ chute = <<>>
    /\ netlist = f
    /\ importado = <<>>
    /\ matrizGn = <<>>
    /\ matrizI = <<>>
    /\ chamada = [op |-> "", index |-> 0, valor |-> [classe |-> "NoneType"]]

InitCom(comps, tt, p, ts, pi, sv, st) == InitArq(comps, tt, p, ts, pi, sv, st, <<>>)

(* --------------------------- index binding ---------------------------- *)
RECURSIVE Terminais(_, _)
Terminais(comps, i) ==
    IF i > Len(comps) THEN <<>> ELSE comps[i].nos \o Terminais(comps, i + 1)

RECURSIVE Coletar(_, _, _)
Coletar(lista, term, k) ==
    IF k > Len(term) THEN lista
    ELSE Coletar(IF Contem(lista, term[k]) THEN lista ELSE Append(lista, term[k]),
                 term, k + 1)

(* the node discovery with the list started empty instead of at ground *)
popular_nos_sem_inicio(comps) ==
    [nos |-> Coletar(<<>>, Terminais(comps, 1), 1),
     hasGround |-> Contem(Terminais(comps, 1), GND)]

(* the node discovery without the ground check *)
popular_nos_sem_teste(comps) ==
    [nos |-> Coletar(<<GND>>, Terminais(comps, 1), 1), hasGround |-> TRUE]

(* Circuito.__popular_nos: the node list and whether ground was seen *)
popular_nos(comps) ==
    [nos |-> Coletar(<<GND>>, Terminais(comps, 1), 1),
     hasGround |-> Contem(Terminais(comps, 1), GND)]

(* the positions handed to set_posicao_nos *)
PosicoesDe(lista, com) == [k \in 1..Len(com.nos) |-> IndexOf(lista, com.nos[k])]

(* the indices handed to set_nos_mod *)
NosModDe(lista, com) == [k \in 1..num_nos_mod(com.tipo) |-> Len(lista) + (k - 1)]

(* the binding loop without the append of line 111 *)
AnexarModNada(lista, com, n) == lista

(* the labels appended for the auxiliary variables of com *)
RECURSIVE AnexarMod(_, _, _)
AnexarMod(lista, com, n) ==
    IF n = 0 THEN lista
    ELSE AnexarMod(Append(lista, "J" \o ToString(Len(lista)) \o Rotulo(com)), com, n - 1)

(* an exception that leaves run() with the trajectory recorded so far *)
LancarParcial(e) == [ok |-> TRUE, erro |-> e, res |-> resultado]

(* an exception leaves run(): the caller gets no trajectory *)
Lancar(e) == [ok |-> FALSE, erro |-> e, res |-> <<>>]

(* run(), lines 98-100: node discovery *)
Run ==
    /\ pc \in {"idle", "done"}
    /\ Len(retorno) < MaxRuns
    /\ LET r == popular_nos(componentes)
       IN  /\ nos' = r.nos
           /\ IF r.hasGround
              THEN /\ pc' = "bind"
                   /\ com_idx' = 1
                   /\ nao_linear' = FALSE
                   /\ erro' = ""
                   /\ retorno' = retorno
              ELSE /\ pc' = "error"
                   /\ erro' = "MissingGround"
                   /\ retorno' = Append(retorno, Lancar("MissingGround"))
                   /\ UNCHANGED <<com_idx, nao_linear>>
    /\ UNCHANGED <<circuito, ligacao, com_passo, com_previous, num_vars, tempo,
                   max_internal_step, passo_run, previous, passo_interno_atual,
                   n_guesses, n_newton_raphson, tensoes, resultado, rng,
                   iteracoes, arquivo>>
    /\ UNCHANGED <<simulacao, memo, com_hist, first_iter, chute, estampas>>

(* run(), lines 101-111: one pass of the binding loop *)
(* set_posicao_nos that leaves first_iter as it is *)
Armar_nunca(com, fi) == fi

(* Mosfet.set_posicao_nos: self.first_iter = True; the other variants have *)
(* no such attribute                                                       *)
Armar(com, fi) == com.tipo = "M"

BindComponent ==
    /\ pc = "bind"
    /\ com_idx <= Len(componentes)
    /\ LET com == componentes[com_idx]
       IN  /\ nao_linear' = (nao_linear \/ ~linear(com.tipo))
           /\ posicao_nos' = [posicao_nos EXCEPT ![com_idx] = PosicoesDe(nos, com)]
           /\ nos_mod' = [nos_mod EXCEPT ![com_idx] = NosModDe(nos, com)]
           /\ nos' = AnexarMod(nos, com, num_nos_mod(com.tipo))
           /\ first_iter' = [first_iter EXCEPT ![com_idx] = Armar(com, @)]
    /\ com_idx' = com_idx + 1
    /\ UNCHANGED <<circuito, com_passo, com_previous, pc, num_vars, tempo,
                   max_internal_step, passo_run, previous, passo_interno_atual,
                   n_guesses, n_newton_raphson, tensoes, resultado, rng,
                   iteracoes, arquivo, erro>>
    /\ UNCHANGED <<simulacao, retorno, memo, com_hist, chute, estampas>>

(* the generator left where the last draw put it *)
SementeMantida(r) == r

(* line 127: np.random.seed(512) puts the generator at the start of its    *)
(* stream                                                                  *)
Semente(r) == 0

(* run(), lines 113-127: the empty trajectory, t = 0 and the seed *)
EndBind ==
    /\ pc = "bind"
    /\ com_idx > Len(componentes)
    /\ num_vars' = Len(nos) - 1
    /\ resultado' = [nos |-> Tail(nos), t |-> <<>>, resultado |-> <<>>]
    /\ tempo' = 0
    /\ rng' = Semente(rng)
    /\ pc' = "loop"
    /\ UNCHANGED <<circuito, nos, ligacao, com_passo, com_previous, com_idx,
                   nao_linear, max_internal_step, passo_run, previous,
                   passo_interno_atual, n_guesses, n_newton_raphson, tensoes,
                   iteracoes, arquivo, erro>>
    /\ UNCHANGED extras

(* the fields __str__ prints after the node names: str() of each parameter; *)
(* Indutor and Capacitor print ' IC=' + str(ic) only if ic != 0.0, Diodo   *)
(* and AmpOp print nothing                                                 *)
Campos(com) ==
    CASE com.tipo \in {"L", "C"} ->
             IF Val(ic(com)) # 0 THEN <<com.args[1], "IC=" \o ic(com)>>
                                 ELSE <<com.args[1]>>
      [] com.tipo \in {"D", "O"} -> <<>>
      [] OTHER -> com.args

(* str(com), as the pieces the text is made of: the variant letter, the    *)
(* name that follows it without a space, and the space-separated fields    *)
str(com) == <<com.tipo, com.name>> \o com.nos \o Campos(com)

(* the number export writes on the first line: the labels of a fresh node  *)
(* discovery, ground not counted                                           *)
ContagemComAux(comps) == Len(nos) - 1

Contagem(comps) == Len(popular_nos(comps).nos) - 1

(* the lines export writes for a circuit whose numbers print as tt, p, pi; *)
(* sim is the text of simulacao, as its first character and the rest       *)
Linhas(comps, sim, tt, p, ts, pi) ==
    <<<<ToString(Contagem(comps))>>>>
    \o [i \in 1..Len(comps) |-> str(comps[i])]
    \o <<sim \o <<tt, p, ts, pi>>>>

(* Circuito.export: the file is opened (and emptied) before the node       *)
(* discovery, which may raise                                              *)
Export ==
    /\ pc \in {"idle", "done"}
    /\ LET r == popular_nos(componentes)
       IN  /\ nos' = r.nos
           /\ IF r.hasGround
              THEN /\ arquivo' = Linhas(componentes, simulacao, ToString(tempo_total),
                                        ToString(passo), tipo_simulacao,
                                        ToString(passo_interno))
                   /\ erro' = ""
              ELSE /\ arquivo' = <<>>
                   /\ erro' = "MissingGround"
    /\ UNCHANGED <<circuito, ligacao, com_passo, com_previous, pc, com_idx, locais,
                   resultado, rng>>
    /\ UNCHANGED extras

(* ------------------ specification of the index binding ---------------- *)
InitBind ==
    \E n \in 0..MaxComps : \E comps \in Circuitos(n) :
        InitCom(comps, 1, 1, "BE", 1, {0}, [k \in 1..StreamLen |-> 0])

NextBind == Run \/ BindComponent \/ EndBind \/ Export

SpecBind == InitBind /\ [][NextBind]_vars

(* ------------------------- transient stepper -------------------------- *)
(* np.random.rand(n): the next n numbers of the stream *)
Rand(pos, n) == [k \in 1..n |-> stream[((pos + k - 1) % StreamLen) + 1]]

Min2(a, b) == IF a < b THEN a ELSE b

(* line 180: max([abs(i-j) for i, j in zip(tensoes, previous)]); zip stops  *)
(* at the shorter list                                                      *)
Pares(x, prev) == 1..Min2(Len(x), Len(prev))

tolerance(x, prev) == Max({Abs(x[k] - prev[k]) : k \in Pares(x, prev)})

(* the stamps with estampaTrap stamping nothing instead of raising *)
Falha_sem_trap(i, guess) ==
    IF tipo_simulacao = "FE" THEN "NotImplementedError"
    ELSE IF tipo_simulacao = "BE" /\ ~linear(componentes[i].tipo)
            /\ \E k \in 1..Len(posicao_nos[i]) : posicao_nos[i][k] >= Len(guess)
         THEN "IndexError"
         ELSE ""

(* the exception the stamp of component i raises for this guess, "" when   *)
(* none: FE and TRAP are not implemented; under BE the nonlinear stamps     *)
(* read the guess at the positions of their terminals                       *)
Falha(i, guess) ==
    IF tipo_simulacao \in {"FE", "TRAP"} THEN "NotImplementedError"
    ELSE IF tipo_simulacao = "BE" /\ ~linear(componentes[i].tipo)
            /\ \E k \in 1..Len(posicao_nos[i]) : posicao_nos[i][k] >= Len(guess)
         THEN "IndexError"
         ELSE ""

(* the first component whose stamp raises, 0 when all stamps return *)
PrimeiraFalha(guess) ==
    IF \E i \in 1..Len(componentes) : Falha(i, guess) # ""
    THEN CHOOSE i \in 1..Len(componentes) :
             Falha(i, guess) # "" /\ \A j \in 1..(i - 1) : Falha(j, guess) = ""
    ELSE 0

(* np.linalg.solve giving a solution whatever was stamped *)
Resolver_qualquer ==
    {[ok |-> FALSE, x |-> <<>>]}
    \cup {[ok |-> TRUE, x |-> y] : y \in [1..num_vars -> sol_vals]}

(* np.linalg.solve on the reduced system: a vector of num_vars values, or   *)
(* LinAlgError; nothing was stamped when the method is none of BE, FE, TRAP *)
Resolver ==
    {[ok |-> FALSE, x |-> <<>>]}
    \cup (IF tipo_simulacao = "BE" \/ num_vars = 0
          THEN {[ok |-> TRUE, x |-> y] : y \in [1..num_vars -> sol_vals]}
          ELSE {})

(* Resultado.append *)
Resultado_append(res, t, linha) ==
    IF Len(linha) = Len(res.nos)
    THEN [ok |-> TRUE,
          res |-> [res EXCEPT !.t = Append(@, t), !.resultado = Append(@, linha)]]
    ELSE [ok |-> FALSE, res |-> res]

(* the whole solution as the row, ground included *)
AmostraInteira(x) == x

(* the row run() hands to Resultado.append, line 196 *)
Amostra(x) == Tail(x)

(* the step size without the shortened first step *)
PassoSemFator(t) == <<passo, 1>>

(* lines 130-134: the step size the stamps of this step see *)
PassoDoPasso(t) == IF t = 0 THEN <<passo, STEP_FACTOR>> ELSE <<passo, 1>>

(* lines 130-131: max_internal_step is assigned at t = 0 only *)
InternosDoPasso(t) == IF t = 0 THEN 1 ELSE max_internal_step

(* lines 128-138: the head of the time loop *)
IniciarPasso ==
    /\ pc = "loop"
    /\ tempo < tempo_total
    /\ max_internal_step' = InternosDoPasso(tempo)
    /\ passo_run' = PassoDoPasso(tempo)
    /\ previous' = Rand(rng, num_vars)
    /\ rng' = (rng + num_vars) % StreamLen
    /\ passo_interno_atual' = 0
    /\ pc' = "inner"
    /\ UNCHANGED <<circuito, nos, ligacao, com_passo, com_previous, com_idx,
                   nao_linear, num_vars, tempo, n_guesses, n_newton_raphson,
                   tensoes, resultado, iteracoes, arquivo, erro>>
    /\ UNCHANGED extras

(* the step of the outer loop, for trajectories of up to MaxAmostras samples *)
StepStart ==
    /\ Len(resultado.t) < MaxAmostras
    /\ IniciarPasso

(* lines 128, 202-203: the loop ends and the trajectory is returned *)
Return ==
    /\ pc = "loop"
    /\ ~(tempo < tempo_total)
    /\ pc' = "done"
    /\ retorno' = Append(retorno, [ok |-> TRUE, erro |-> "", res |-> resultado])
    /\ UNCHANGED <<circuito, nos, ligacao, com_passo, com_previous, com_idx,
                   locais, resultado, rng, arquivo, erro>>
    /\ UNCHANGED <<simulacao, memo, com_hist, first_iter, chute, estampas>>

(* lines 139-144: one more sub-solve of this step *)
InnerStart ==
    /\ pc = "inner"
    /\ passo_interno_atual < max_internal_step
    /\ n_guesses' = 0
    /\ n_newton_raphson' = 0
    /\ iteracoes' = 0
    /\ pc' = "newton"
    /\ UNCHANGED <<circuito, nos, ligacao, com_passo, com_previous, com_idx,
                   nao_linear, num_vars, tempo, max_internal_step, passo_run,
                   previous, passo_interno_atual, tensoes, resultado, rng,
                   arquivo, erro>>
    /\ UNCHANGED extras

(* the test of line 147 passing one iteration early *)
ReseedCedo(nnr) == nao_linear /\ nnr >= N_MAX - 1

(* line 147: the guess has had its N_MAX iterations *)
Reseed(nnr) == nao_linear /\ nnr = N_MAX

(* the test of line 148 with > for >= *)
EsgotadoTardio(ng) == ng > M_MAX

(* line 148: no guesses are left *)
Esgotado(ng) == ng >= M_MAX

(* the test of line 182 without the linearity flag *)
RejeitadoSempre(x, guess) == tolerance(x, guess) > TOLERANCIA

(* line 182: the solution is not accepted *)
Rejeitado(x, guess) == nao_linear /\ tolerance(x, guess) > TOLERANCIA

(* the history term without the branch on t == 0 *)
HistoricoSemIC(i, t) == <<com_previous[i]>>

(* Capacitor.estampaBE lines 386-391, Indutor.estampaBE lines 316-319: the *)
(* history term of the stamp                                               *)
Historico(i, t) ==
    IF t = 0 THEN <<Val(ic(componentes[i]))>> ELSE <<com_previous[i]>>

(* Mosfet.estampaBE lines 880-904: the gate voltage the stamp works with.  *)
(* Drain and source are exchanged when the polarity is reversed; the first *)
(* call after set_posicao_nos takes 2.0 (N) or -2.0 (P) for it             *)
Mosfet_vgs(i, guess, fi) ==
    LET vd == guess[posicao_nos[i][1] + 1]
        vg == guess[posicao_nos[i][2] + 1]
        vs == guess[posicao_nos[i][3] + 1]
    IN  IF componentes[i].args[1] = "N"
        THEN IF fi THEN Val("2.0") ELSE vg - (IF vd < vs THEN vd ELSE vs)
        ELSE IF fi THEN -Val("2.0") ELSE -(vg - (IF vd > vs THEN vd ELSE vs))

(* vds = vd - vs (N) or -(vd - vs) (P) after the exchange *)
Mosfet_vds(i, guess) ==
    Abs(guess[posicao_nos[i][1] + 1] - guess[posicao_nos[i][3] + 1])

(* what the stamp of component i reads besides its own parameters, its     *)
(* indices and its step size                                               *)
Leitura(i, guess, t) ==
    CASE componentes[i].tipo \in {"L", "C"} -> Historico(i, t)
      [] componentes[i].tipo \in {"D", "N"} ->
             <<guess[posicao_nos[i][1] + 1] - guess[posicao_nos[i][2] + 1]>>
      [] componentes[i].tipo = "M" ->
             <<Mosfet_vgs(i, guess, first_iter[i]), Mosfet_vds(i, guess)>>
      [] componentes[i].tipo \in {"I", "V"} -> <<t>>
      [] OTHER -> <<>>

(* lines 157-169: the system the stamps assemble is a function of this *)
Sistema(guess) ==
    IF tipo_simulacao = "BE"
    THEN <<passo_run, [i \in 1..Len(componentes) |-> Leitura(i, guess, tempo)]>>
    ELSE <<>>

(* the history term the stamp of component i has used *)
HistoricoUsado(i, t) ==
    IF componentes[i].tipo \in {"L", "C"} THEN Historico(i, t) ELSE <<>>

(* lines 145-187: one pass of the Newton-Raphson loop *)
NewtonIteration ==
    /\ pc = "newton"
    /\ LET reseed == Reseed(n_newton_raphson)
           guess == IF reseed THEN Rand(rng, num_vars) ELSE previous
           nnr == IF reseed THEN 0 ELSE n_newton_raphson
           f == PrimeiraFalha(guess)
       IN  IF reseed /\ Esgotado(n_guesses)
           THEN /\ pc' = "error"
                /\ erro' = "NewtonDiverged"
                /\ retorno' = Append(retorno, Lancar("NewtonDiverged"))
                /\ UNCHANGED <<com_passo, previous, n_guesses, n_newton_raphson,
                               tensoes, rng, iteracoes, memo, com_hist, first_iter,
                               chute>>
           ELSE /\ rng' = (IF reseed THEN (rng + num_vars) % StreamLen ELSE rng)
                /\ n_guesses' = (IF reseed THEN n_guesses + 1 ELSE n_guesses)
                /\ chute' = guess
                /\ com_passo' = [i \in 1..Len(componentes) |->
                                   IF f = 0 \/ i <= f THEN passo_run ELSE com_passo[i]]
                /\ com_hist' = [i \in 1..Len(componentes) |->
                                   IF tipo_simulacao = "BE" /\ (f = 0 \/ i < f)
                                   THEN HistoricoUsado(i, tempo) ELSE com_hist[i]]
                /\ first_iter' = [i \in 1..Len(componentes) |->
                                   IF tipo_simulacao = "BE" /\ (f = 0 \/ i < f)
                                   THEN FALSE ELSE first_iter[i]]
                /\ IF f # 0
                   THEN /\ pc' = "error"
                        /\ erro' = Falha(f, guess)
                        /\ retorno' = Append(retorno, Lancar(Falha(f, guess)))
                        /\ previous' = guess
                        /\ n_newton_raphson' = nnr
                        /\ UNCHANGED <<tensoes, iteracoes, memo>>
                   ELSE \E r \in Resolver :
                        /\ \A m \in memo : m.sistema = Sistema(guess) => m.r = r
                        /\ memo' = memo \cup {[sistema |-> Sistema(guess), r |-> r]}
                        /\ IF ~r.ok
                           THEN /\ pc' = "error"
                                /\ erro' = "LinAlgError"
                                /\ retorno' = Append(retorno, Lancar("LinAlgError"))
                                /\ previous' = guess
                                /\ n_newton_raphson' = nnr
                                /\ UNCHANGED <<tensoes, iteracoes>>
                           ELSE LET x == <<0>> \o r.x
                                IN  /\ tensoes' = x
                                    /\ iteracoes' = iteracoes + 1
                                    /\ IF Pares(x, guess) = {}
                                       THEN /\ pc' = "error"
                                            /\ erro' = "ValueError"
                                            /\ retorno' = Append(retorno, Lancar("ValueError"))
                                            /\ previous' = guess
                                            /\ n_newton_raphson' = nnr
                                       ELSE IF Rejeitado(x, guess)
                                       THEN /\ previous' = x
                                            /\ n_newton_raphson' = nnr + 1
                                            /\ UNCHANGED <<pc, erro, retorno>>
                                       ELSE /\ pc' = "update"
                                            /\ previous' = guess
                                            /\ n_newton_raphson' = nnr
                                            /\ UNCHANGED <<erro, retorno>>
    /\ UNCHANGED <<circuito, nos, ligacao, com_previous, com_idx, nao_linear,
                   num_vars, tempo, max_internal_step, passo_run,
                   passo_interno_atual, resultado, arquivo, simulacao, estampas>>

(* Capacitor.update with the voltage of the first terminal alone *)
update_sem_b(i, x) ==
    CASE componentes[i].tipo = "C" -> x[posicao_nos[i][1] + 1]
      [] componentes[i].tipo = "L" -> x[nos_mod[i][1] + 1]
      [] OTHER -> com_previous[i]

(* Capacitor.update, Indutor.update, Componente.update *)
update(i, x) ==
    CASE componentes[i].tipo = "C" ->
             x[posicao_nos[i][1] + 1] - x[posicao_nos[i][2] + 1]
      [] componentes[i].tipo = "L" -> x[nos_mod[i][1] + 1]
      [] OTHER -> com_previous[i]

(* lines 190-193: the accepted solution goes to every component *)
Update ==
    /\ pc = "update"
    /\ com_previous' = [i \in 1..Len(componentes) |-> update(i, tensoes)]
    /\ passo_interno_atual' = passo_interno_atual + 1
    /\ pc' = "inner"
    /\ UNCHANGED <<circuito, nos, ligacao, com_passo, com_idx, nao_linear, num_vars,
                   tempo, max_internal_step, passo_run, previous, n_guesses,
                   n_newton_raphson, tensoes, resultado, rng, iteracoes, arquivo,
                   erro>>
    /\ UNCHANGED extras

(* lines 196-198: the sample is recorded and the time advances *)
EndStep ==
    /\ pc = "inner"
    /\ ~(passo_interno_atual < max_internal_step)
    /\ LET r == Resultado_append(resultado, tempo, Amostra(tensoes))
       IN  IF r.ok
           THEN /\ resultado' = r.res
                /\ tempo' = FlAdd(tempo, passo)
                /\ pc' = "loop"
                /\ UNCHANGED <<erro, retorno>>
           ELSE /\ pc' = "error"
                /\ erro' = "AssertionError"
                /\ retorno' = Append(retorno, Lancar("AssertionError"))
                /\ UNCHANGED <<resultado, tempo>>
    /\ UNCHANGED <<circuito, nos, ligacao, com_passo, com_previous, com_idx,
                   nao_linear, num_vars, max_internal_step, passo_run, previous,
                   passo_interno_atual, n_guesses, n_newton_raphson, tensoes, rng,
                   iteracoes, arquivo>>
    /\ UNCHANGED <<simulacao, memo, com_hist, first_iter, chute, estampas>>

(* the caller appends a row of n values to the trajectory it was returned *)
CallerAppend ==
    /\ pc = "done"
    /\ \E n \in 0..(Len(resultado.nos) + 1) :
         LET r == Resultado_append(resultado, tempo, [k \in 1..n |-> 0])
         IN  /\ resultado' = r.res
             /\ erro' = (IF r.ok THEN "" ELSE "AssertionError")
    /\ pc' = "caller"
    /\ UNCHANGED <<circuito, nos, ligacao, com_passo, com_previous, com_idx,
                   locais, rng, arquivo>>
    /\ UNCHANGED extras

(* --------------------- specification of the facade -------------------- *)
R10 == [tipo |-> "R", nos |-> <<"1", "0">>]
R12 == [tipo |-> "R", nos |-> <<"1", "2">>]
R00 == [tipo |-> "R", nos |-> <<"0", "0">>]
R20 == [tipo |-> "R", nos |-> <<"2", "0">>]
L10 == [tipo |-> "L", nos |-> <<"1", "0">>]
C10 == [tipo |-> "C", nos |-> <<"1", "0">>]
D10 == [tipo |-> "D", nos |-> <<"1", "0">>]
L10ic == [tipo |-> "L", nos |-> <<"1", "0">>, args |-> <<"1.0", "3e-05">>]
Cap12ic == [tipo |-> "C", nos |-> <<"1", "2">>, args |-> <<"1.0", "3e-05">>]
M110 == [tipo |-> "M", nos |-> <<"1", "1", "0">>]
M110P == [tipo |-> "M", nos |-> <<"1", "1", "0">>,
          args |-> <<"P", "1.0", "1.0", "1.0", "1.0", "1.0">>]

(* the circuits simulated, each with the values its unknowns can take *)
Casos ==
    {[comps |-> Montar(<<>>), sv |-> SolVals],
     [comps |-> Montar(<<R12>>), sv |-> SolVals],
     [comps |-> Montar(<<R00>>), sv |-> SolVals],
     [comps |-> Montar(<<R10>>), sv |-> SolVals],
     [comps |-> Montar(<<L10ic, C10>>), sv |-> SolVals],
     [comps |-> Montar(<<Cap12ic, R20>>), sv |-> SolVals],
     [comps |-> Montar(<<D10>>), sv |-> {3}],
     [comps |-> Montar(<<D10, R20>>), sv |-> {3}],
     [comps |-> Montar(<<M110, R20>>), sv |-> {3}],
     [comps |-> Montar(<<M110P, R20>>), sv |-> {3}]}

TemposTotais == {-1, 0, 2, 4, 16}

Passos == {1, 5}

MaxInterno == 2

(* one component of each variant, on the nodes 1, 0, 2, 0 *)
Variantes ==
    {Montar(<<[tipo |-> t, nos |-> SubSeq(<<"1", "0", "2", "0">>, 1, num_nos(t))]>>) :
         t \in Tipos}

(* the circuits run with the integration methods that have no stamp *)
CasosMetodo == Variantes \cup {Montar(<<R10, L10>>), Montar(<<R12>>), Montar(<<R00>>)}

Metodos == {"FE", "TRAP", "GEAR"}

Init ==
    \/ \E c \in Casos, tt \in TemposTotais, p \in Passos, pi \in 1..MaxInterno,
          st \in Streams :
           InitCom(c.comps, tt, p, "BE", pi, c.sv, st)
    \/ \E c \in CasosMetodo, ts \in Metodos, tt \in {0, 2} :
           InitCom(c, tt, 1, ts, 1, {3}, [k \in 1..StreamLen |-> 0])

Next ==
    \/ Run
    \/ BindComponent
    \/ EndBind
    \/ StepStart
    \/ InnerStart
    \/ NewtonIteration
    \/ Update
    \/ EndStep
    \/ Return
    \/ CallerAppend
    \/ Export

Spec == Init /\ [][Next]_vars

(* ------------------- specification of the time loop ------------------ *)
MaxPassos == 10

(* the step of the outer loop, for trajectories of up to MaxPassos samples *)
StepStartLongo ==
    /\ Len(resultado.t) < MaxPassos
    /\ IniciarPasso

(* one resistor to ground, whose only unknown is solved as 0 *)
InitTempo ==
    \E tt \in {10, 12}, p \in {1, 2} :
        InitCom(Montar(<<R10>>), tt, p, "BE", 1, {0}, [k \in 1..StreamLen |-> 0])

NextTempo ==
    \/ Run
    \/ BindComponent
    \/ EndBind
    \/ StepStartLongo
    \/ InnerStart
    \/ NewtonIteration
    \/ Update
    \/ EndStep
    \/ Return

SpecTempo == InitTempo /\ [][NextTempo]_vars

(* ----------------- specification of the Newton driver ----------------- *)
InitNewton ==
    \E st \in Streams :
        InitCom(Montar(<<D10, R20>>), 1, 1, "BE", 1, SolVals, st)

SpecNewton == InitNewton /\ [][Next]_vars

(* ------------------------------ netlist files -------------------------- *)
(* A line of text is held as the pieces split(' ') and line[0] take apart: *)
(* the first character, the rest of the first field, then the other        *)
(* fields; <<>> is the empty line.                                         *)

(* the numerals the files are written with *)
Numerais == {"0", "0.0", "1", "1.0", "2", "2.0", "1000", "1000.0", "1e3", "3e-05"}

(* c[4].replace('IC=', '') *)
SemIC(s) ==
    IF \E n \in Numerais : s = "IC=" \o n
    THEN CHOOSE n \in Numerais : s = "IC=" \o n
    ELSE s

(* how the branch of a variant reads the fields c[1], c[2], ... in the     *)
(* order python evaluates them: "s" as text, "f" through float(), "i"      *)
(* through int(), "ic" through replace and float()                         *)
Leituras(line) ==
    LET tipo == line[1]
        n    == Len(line) - 1
    IN  CASE tipo = "R" -> <<"s", "s", "f">>
          [] tipo \in {"L", "C"} -> IF n = 5 THEN <<"s", "s", "f", "ic">>
                                            ELSE <<"s", "s", "f">>
          [] tipo = "N" -> <<"s", "s", "f", "f", "f", "f", "f", "f", "f", "f">>
          [] tipo \in {"E", "F", "G", "H"} -> <<"s", "s", "s", "s", "f">>
          [] tipo = "O" -> <<"s", "s", "s">>
          [] tipo = "D" -> <<"s", "s">>
          [] tipo = "M" -> <<"s", "s", "s", "s", "f", "f", "f", "f", "f">>
          [] tipo \in {"I", "V"} ->
                 IF n <= 3 THEN <<"s", "s", "s">>
                 ELSE IF line[5] = "DC" THEN <<"s", "s", "s", "f">>
                 ELSE IF line[5] = "SIN"
                      THEN <<"s", "s", "s", "f", "f", "f", "f", "f", "f", "f">>
                 ELSE IF line[5] = "PULSE"
                      THEN <<"s", "s", "s", "f", "f", "f", "f", "f", "f", "f", "f">>
                 ELSE <<"s", "s", "s">>
          [] tipo = "." -> <<"f", "f", "s", "i">>

(* the exception raised while the fields are read, "" when none: c[k] of a *)
(* missing field raises IndexError, float() and int() raise ValueError     *)
ErroDeLeitura(line) ==
    LET n   == Len(line) - 1
        ks  == Leituras(line)
        ruim(k) == \/ k >= n
                   \/ ks[k] = "f" /\ float(line[k + 2]) = "ValueError"
                   \/ ks[k] = "ic" /\ float(SemIC(line[k + 2])) = "ValueError"
                   \/ ks[k] = "i" /\ int(line[k + 2]) = "ValueError"
        B   == {k \in 1..Len(ks) : ruim(k)}
    IN  IF B = {} THEN ""
        ELSE LET k == CHOOSE x \in B : \A y \in B : x <= y
             IN  IF k >= n THEN "IndexError" ELSE "ValueError"

(* the component a line builds *)
Construir(line) ==
    LET tipo == line[1]
        n    == Len(line) - 1
        fl(a, b) == [k \in 1..(b - a + 1) |-> float(line[a + k + 1])]
    IN  [tipo |-> tipo, name |-> line[2],
         nos |-> SubSeq(line, 3, 2 + num_nos(tipo)),
         args |-> CASE tipo = "R" -> fl(3, 3)
                    [] tipo \in {"L", "C"} ->
                           IF n = 5 THEN <<float(line[5]), float(SemIC(line[6]))>>
                                    ELSE <<float(line[5]), "0.0">>
                    [] tipo = "N" -> fl(3, 10)
                    [] tipo \in {"E", "F", "G", "H"} -> fl(5, 5)
                    [] tipo \in {"O", "D"} -> <<>>
                    [] tipo = "M" -> <<line[6]>> \o fl(5, 9)
                    [] tipo \in {"I", "V"} -> SubSeq(line, 5, Len(line))]

(* what import_netlist gives its caller *)
Importou(comps, line) ==
    [ok |-> TRUE, erro |-> "", componentes |-> comps,
     simulacao |-> <<line[1], line[2]>>, tempo_total |-> float(line[3]),
     passo |-> float(line[4]), tipo_simulacao |-> line[5],
     passo_interno |-> int(line[6])]

NaoImportou(e) ==
    [ok |-> FALSE, erro |-> e, componentes |-> <<>>, simulacao |-> <<>>,
     tempo_total |-> "", passo |-> "", tipo_simulacao |-> "", passo_interno |-> ""]

(* the while loop of import_netlist from line k on, then the construction  *)
(* of the Circuito: at the end of the file line is '' and params[1] raises *)
(* IndexError, as does line[0] of an empty line; Mosfet.__init__ asserts   *)
(* the type and divides by L; a first character no branch tests for is     *)
(* passed over                                                             *)
RECURSIVE Ler(_, _, _)
Ler(linhas, k, comps) ==
    IF k > Len(linhas) \/ linhas[k] = <<>> THEN NaoImportou("IndexError")
    ELSE LET line == linhas[k]
             e    == ErroDeLeitura(line)
         IN  IF line[1] = "."
             THEN IF e # "" THEN NaoImportou(e) ELSE Importou(comps, line)
             ELSE IF line[1] \in Tipos
             THEN IF e # "" THEN NaoImportou(e)
                  ELSE IF line[1] = "M" /\ line[6] \notin {"N", "P"}
                       THEN NaoImportou("AssertionError")
                  ELSE IF line[1] = "M" /\ Val(line[8]) = 0
                       THEN NaoImportou("ZeroDivisionError")
                  ELSE Ler(linhas, k + 1, Append(comps, Construir(line)))
             ELSE Ler(linhas, k + 1, comps)

(* the first line is read and not used *)
import_netlist(linhas) == Ler(linhas, 2, <<>>)

(* import_netlist(filename) *)
Import ==
    /\ pc = "idle"
    /\ LET r == import_netlist(netlist)
       IN  /\ importado' = <<r>>
           /\ erro' = r.erro
           /\ pc' = IF r.ok THEN "importado" ELSE "error"
    /\ UNCHANGED <<circuito, ligacao, com_passo, com_previous, com_idx, locais,
                   resultado, rng, nos, arquivo, simulacao, retorno, memo, com_hist,
                   first_iter, chute, netlist, matrizGn, matrizI, chamada>>

(* export() of the circuit import_netlist returned *)
ExportImportado ==
    /\ pc = "importado"
    /\ LET c == importado[1]
       IN  IF popular_nos(c.componentes).hasGround
           THEN /\ arquivo' = Linhas(c.componentes, c.simulacao, c.tempo_total,
                                     c.passo, c.tipo_simulacao, c.passo_interno)
                /\ erro' = ""
                /\ pc' = "exportado"
           ELSE /\ arquivo' = <<>>
                /\ erro' = "MissingGround"
                /\ pc' = "error"
    /\ UNCHANGED <<circuito, ligacao, com_passo, com_previous, com_idx, locais,
                   resultado, rng, nos, extras>>

(* the component lines the files are made of: one of each variant as the   *)
(* tests write them, and lines no branch of import_netlist is written for  *)
LinhasDeComponente ==
    {<<"R", "1", "1", "0", v>> : v \in {"1", "1.0", "1000", "1000.0", "1e3"}}
    \cup {<<"L", "1", "1", "0", "1.0">>, <<"L", "1", "1", "0", "1", "IC=1">>,
          <<"C", "1", "1", "0", "1.0", "IC=1.0">>,
          <<"C", "1", "1", "0", "1.0", "IC=0.0">>,
          <<"N", "1", "1", "0", "2.0", "1.0", "1.0", "1.0", "1.0", "1.0", "1.0", "1.0">>,
          <<"E", "1", "1", "0", "2", "0", "2.0">>,
          <<"F", "1", "1", "0", "2", "0", "2.0">>,
          <<"G", "1", "1", "0", "2", "0", "2.0">>,
          <<"H", "1", "1", "0", "2", "0", "2.0">>,
          <<"O", "1", "1", "0", "2">>,
          <<"D", "1", "1", "0">>,
          <<"M", "1", "1", "2", "0", "N", "1.0", "1.0", "1.0", "1.0", "1.0">>,
          <<"I", "1", "1", "0", "DC", "1">>,
          <<"V", "1", "1", "0", "DC", "1.0">>,
          <<"V", "1", "1", "0", "SIN", "0", "1", "1", "0.0", "0", "0", "1">>}
    \cup {<<"X", "1", "1", "0", "1.0">>, <<"R", "1", "1", "0">>,
          <<"R", "1", "1", "0", "1.0", "2.0">>, <<"R", "1", "1", "0", "abc">>,
          <<"L", "1", "1", "0", "1.0", "IC=1.0", "2.0">>,
          <<"D", "1", "1", "0", "1.0">>, <<"I", "1", "1", "0">>, <<>>}

LinhasFinais ==
    {<<".", "TRAN", "1000", "1.0", "BE", "1">>, <<".", "TRAN", "1.0", "1.0", "BE", "1">>,
     <<".", "TRAN", "1.0", "1.0", "BE", "1.0">>, <<".", "TRAN", "1.0">>}

MaxLinhas == 2

Arquivos ==
    {<<<<n>>>> \o meio \o fim :
        n \in {"1", "2"},
        meio \in UNION {[1..k -> LinhasDeComponente] : k \in 0..MaxLinhas},
        fim \in {<<>>} \cup {<<l>> : l \in LinhasFinais}}

InitNetlist ==
    \E f \in Arquivos : InitArq(<<>>, 0, 1, "BE", 1, {0}, [i \in 1..StreamLen |-> 0], f)

NextNetlist == Import \/ ExportImportado

SpecNetlist == InitNetlist /\ [][NextNetlist]_vars

(* ------------------------------- stamps -------------------------------- *)
(* Gn and I are numpy arrays indexed from 0, row and column 0 being ground; *)
(* their entries are numbers in units of 1e-5                              *)
MaxDim == 5

MaxEstampas == 2

Indices == 0..(MaxDim - 1)

(* np.zeros((n, n)), np.zeros((n, 1)) *)
ZerosGn == [e \in Indices \X Indices |-> 0]

ZerosI == [k \in Indices |-> 0]

(* Gn[r, c] += v *)
Mais(Gn, r, c, v) == [Gn EXCEPT ![<<r, c>>] = @ + v]

(* the stamp without the entry of the second controlling terminal *)
FonteTensaoTensao_estampaBE_sem_d(i, Gn, I) ==
    LET no_a == posicao_nos[i][1]
        no_b == posicao_nos[i][2]
        no_c == posicao_nos[i][3]
        corrente_jx == nos_mod[i][1]
        valor == Val(componentes[i].args[1])
        G1 == Mais(Gn, no_a, corrente_jx, Val("1.0"))
        G2 == Mais(G1, no_b, corrente_jx, -Val("1.0"))
        G3 == Mais(G2, corrente_jx, no_c, valor)
        G5 == Mais(G3, corrente_jx, no_a, -Val("1.0"))
        G6 == Mais(G5, corrente_jx, no_b, Val("1.0"))
    IN  <<G6, I>>

(* FonteTensaoTensao.estampaBE *)
FonteTensaoTensao_estampaBE(i, Gn, I) ==
    LET no_a == posicao_nos[i][1]
        no_b == posicao_nos[i][2]
        no_c == posicao_nos[i][3]
        no_d == posicao_nos[i][4]
        corrente_jx == nos_mod[i][1]
        valor == Val(componentes[i].args[1])
        G1 == Mais(Gn, no_a, corrente_jx, Val("1.0"))
        G2 == Mais(G1, no_b, corrente_jx, -Val("1.0"))
        G3 == Mais(G2, corrente_jx, no_c, valor)
        G4 == Mais(G3, corrente_jx, no_d, -valor)
        G5 == Mais(G4, corrente_jx, no_a, -Val("1.0"))
        G6 == Mais(G5, corrente_jx, no_b, Val("1.0"))
    IN  <<G6, I>>

(* FonteTensaoCorrente.estampaBE *)
FonteTensaoCorrente_estampaBE(i, Gn, I) ==
    LET no_a == posicao_nos[i][1]
        no_b == posicao_nos[i][2]
        no_c == posicao_nos[i][3]
        no_d == posicao_nos[i][4]
        corrente_jx == nos_mod[i][1]
        corrente_jy == nos_mod[i][2]
        valor == Val(componentes[i].args[1])
        G1 == Mais(Gn, no_a, corrente_jx, -Val("1.0"))
        G2 == Mais(G1, no_b, corrente_jx, Val("1.0"))
        G3 == Mais(G2, no_c, corrente_jy, -Val("1.0"))
        G4 == Mais(G3, no_d, corrente_jy, Val("1.0"))
        G5 == Mais(G4, corrente_jx, no_a, Val("1.0"))
        G6 == Mais(G5, corrente_jx, no_b, -Val("1.0"))
        G7 == Mais(G6, corrente_jy, no_c, Val("1.0"))
        G8 == Mais(G7, corrente_jy, no_d, -Val("1.0"))
        G9 == Mais(G8, corrente_jy, corrente_jx, valor)
    IN  <<G9, I>>

RECURSIVE MDC(_, _)
MDC(x, y) == IF y = 0 THEN x ELSE MDC(y, x % y)

(* x * y / z, the common factors taken out before the product is formed *)
MulDiv(x, y, z) ==
    LET g1 == MDC(Abs(x), Abs(z))
        x1 == x \div g1
        z1 == z \div g1
        g2 == MDC(Abs(y), Abs(z1))
    IN  (x1 * (y \div g2)) \div (z1 \div g2)

(* I[k] += v *)
MaisI(I, k, v) == [I EXCEPT ![k] = @ + v]

(* Resistor.estampaBE of a resistor whose valor is the quotient n/d: the   *)
(* conductance 1/valor goes to the four entries of the terminals           *)
Resistor_estampaBE(Gn, no_a, no_b, n, d) ==
    LET g  == MulDiv(d, Val("1.0"), n)
        G1 == Mais(Gn, no_a, no_a, g)
        G2 == Mais(G1, no_a, no_b, -g)
        G3 == Mais(G2, no_b, no_a, -g)
    IN  Mais(G3, no_b, no_b, g)

(* FonteCorrente.estampaBE of a DC source *)
FonteCorrente_estampaBE(I, no_a, no_b, corrente) ==
    MaisI(MaisI(I, no_a, -corrente), no_b, corrente)

(* what a stamp gives its caller: the matrices, or the exception raised    *)
(* before any entry was written                                            *)
Estampou(Gn, I) == [erro |-> "", Gn |-> Gn, I |-> I]

NaoEstampou(e, Gn, I) == [erro |-> e, Gn |-> Gn, I |-> I]

(* the branches of ResistorNaoLinear.estampaBE with >= for > *)
Segmento_ge(i, vab) ==
    LET v2 == Val(componentes[i].args[3])
        v3 == Val(componentes[i].args[5])
    IN  IF vab >= v3 THEN 3 ELSE IF vab >= v2 THEN 2 ELSE 1

(* the branches of ResistorNaoLinear.estampaBE: the segment that ends at   *)
(* point 4, at point 3 or at point 2                                       *)
Segmento(i, vab) ==
    LET v2 == Val(componentes[i].args[3])
        v3 == Val(componentes[i].args[5])
    IN  IF vab > v3 THEN 3 ELSE IF vab > v2 THEN 2 ELSE 1

(* ResistorNaoLinear.estampaBE; args are v1, i1, v2, i2, v3, i3, v4, i4.   *)
(* g0 is the quotient di/dv, condutancia.valor = 1/g0 the quotient dv/di   *)
ResistorNaoLinear_estampaBE(i, Gn, I, guess) ==
    LET no_a == posicao_nos[i][1]
        no_b == posicao_nos[i][2]
        vab  == guess[no_a + 1] - guess[no_b + 1]
        k    == Segmento(i, vab)
        v_lo == Val(componentes[i].args[2 * k - 1])
        i_lo == Val(componentes[i].args[2 * k])
        v_hi == Val(componentes[i].args[2 * k + 1])
        i_hi == Val(componentes[i].args[2 * k + 2])
        di   == i_hi - i_lo
        dv   == v_hi - v_lo
    IN  IF dv = 0 \/ di = 0 THEN NaoEstampou("ZeroDivisionError", Gn, I)
        ELSE LET i0 == i_hi - MulDiv(di, v_hi, dv)
             IN  Estampou(Resistor_estampaBE(Gn, no_a, no_b, dv, di),
                          FonteCorrente_estampaBE(I, no_a, no_b, i0))

(* the clamp of the diode voltage at 0.5 for 0.9 *)
Ceifar_baixo(vab) == IF vab > 50000 THEN 50000 ELSE vab

(* Diodo.estampaBE lines 737-738: if vab > 0.9: vab = 0.9 *)
Ceifar(vab) == IF vab > 90000 THEN 90000 ELSE vab

(* g0 = 3.7751345e-14*np.exp(vab/25e-3)/25e-3 at the voltages the guesses  *)
(* give: whether the float is 0.0 (np.exp underflows at -20 V) and its     *)
(* value to the nearest 1e-5                                               *)
Diodo_g0(vab) ==
    CASE vab = -2000000 -> [zero |-> TRUE, g |-> 0]
      [] vab = 0 -> [zero |-> FALSE, g |-> 0]
      [] vab = 50000 -> [zero |-> FALSE, g |-> 73]
      [] vab = 90000 -> [zero |-> FALSE, g |-> 651019158]

(* id = 3.7751345e-14*(np.exp(vab/25e-3)-1) - g0*vab to the nearest 1e-5 *)
Diodo_id(vab) ==
    CASE vab = -2000000 -> 0
      [] vab = 0 -> 0
      [] vab = 50000 -> -35
      [] vab = 90000 -> -569641763

(* Diodo.estampaBE: condutancia.valor = 1/g0 is set and stamped only if    *)
(* g0 != 0, the source always                                              *)
Diodo_estampaBE(i, Gn, I, guess) ==
    LET no_a == posicao_nos[i][1]
        no_b == posicao_nos[i][2]
        vab  == Ceifar(guess[no_a + 1] - guess[no_b + 1])
        g0   == Diodo_g0(vab)
        id   == Diodo_id(vab)
    IN  Estampou(IF ~g0.zero THEN Resistor_estampaBE(Gn, no_a, no_b, Val("1.0"), g0.g)
                             ELSE Gn,
                 FonteCorrente_estampaBE(I, no_a, no_b, id))

(* a time as the quotient <<n, d>> of two integers, d > 0: self.passo is   *)
(* the nominal step divided by the number of inner steps                   *)
QMais(q, x) == <<q[1] + x * q[2], q[2]>>

QSoma(q, r) == <<q[1] * r[2] + r[1] * q[2], q[2] * r[2]>>

(* x < q *)
QMenor(x, q) == x * q[2] < q[1]

(* x - q *)
QDesde(x, q) == <<x * q[2] - q[1], q[2]>>

(* TR = self.tempo_subida if self.tempo_subida >= 0 else self.passo *)
TempoOuPasso_ge(x, p) == IF x >= 0 THEN <<x, 1>> ELSE p

(* lines 135-136: TR = self.tempo_subida if self.tempo_subida > 0 else     *)
(* self.passo                                                              *)
TempoOuPasso(x, p) == IF x > 0 THEN <<x, 1>> ELSE p

(* the end of the plateau taken for the end of the rise *)
T_HIGH_END_sem_PW(TR, PW) == TR

(* line 152: T_HIGH_END = TR + PW *)
T_HIGH_END(TR, PW) == QMais(TR, PW)

(* lines 156, 164: d * (x / dur), x and dur quotients *)
Fracao(d, x, dur) == MulDiv(d, x[1] * dur[2], x[2] * dur[1])

Valor(v) == [erro |-> "", valor |-> v]

(* Componente.calcular_valor_fonte at time t of a DC or PULSE source whose *)
(* passo is p; args are the type and the texts processa_argumentos_fonte   *)
(* converted with float                                                    *)
calcular_valor_fonte(i, t, p) ==
    LET a == componentes[i].args
    IN  IF a[1] = "DC" THEN Valor(Val(a[2]))
        ELSE LET T1  == Val(a[2])
                 T2  == Val(a[3])
                 TD  == Val(a[4])
                 PER == Val(a[8])
                 TR  == TempoOuPasso(Val(a[5]), p)
                 TF  == TempoOuPasso(Val(a[6]), p)
                 PW  == Val(a[7])
                 N_CYCLES == Val(a[9])
                 T_TOTAL_SIM == TD + MulDiv(N_CYCLES, PER, Val("1.0"))
                 t_cycle == (t - TD) % PER
                 T_FALL_END == QSoma(QMais(TR, PW), TF)
                 t_on_fall == QDesde(t_cycle, T_HIGH_END(TR, PW))
             IN  IF t < TD THEN Valor(T1)
                 ELSE IF N_CYCLES > 0 /\ t >= T_TOTAL_SIM THEN Valor(T1)
                 ELSE IF PER = 0 THEN [erro |-> "ZeroDivisionError", valor |-> 0]
                 ELSE IF QMenor(t_cycle, TR)
                      THEN Valor(T1 + Fracao(T2 - T1, <<t_cycle, 1>>, TR))
                 ELSE IF QMenor(t_cycle, T_HIGH_END(TR, PW)) THEN Valor(T2)
                 ELSE IF QMenor(t_cycle, T_FALL_END)
                      THEN Valor(T2 - Fracao(T2 - T1, t_on_fall, TF))
                 ELSE Valor(T1)

(* FonteCorrente.estampaBE at time t, the component's passo being p *)
FonteCorrente_estampa(i, Gn, I, t, p) ==
    LET corrente == calcular_valor_fonte(i, t, p)
    IN  IF corrente.erro # "" THEN NaoEstampou(corrente.erro, Gn, I)
        ELSE Estampou(Gn, FonteCorrente_estampaBE(I, posicao_nos[i][1],
                                                  posicao_nos[i][2], corrente.valor))

(* com.estampaBE(matrizGn, matrizI, tempo, previous), com.passo being p *)
estampaBE(i, Gn, I, t, p, guess) ==
    CASE componentes[i].tipo = "I" -> FonteCorrente_estampa(i, Gn, I, t, p)
      [] componentes[i].tipo = "E" ->
             LET r == FonteTensaoTensao_estampaBE(i, Gn, I) IN Estampou(r[1], r[2])
      [] componentes[i].tipo = "H" ->
             LET r == FonteTensaoCorrente_estampaBE(i, Gn, I) IN Estampou(r[1], r[2])
      [] componentes[i].tipo = "N" -> ResistorNaoLinear_estampaBE(i, Gn, I, guess)
      [] componentes[i].tipo = "D" -> Diodo_estampaBE(i, Gn, I, guess)

(* the voltages the guesses give the terminals of a piecewise-linear       *)
(* resistor                                                                *)
TensoesDoChute == {-200000, -100000, 0, 50000, 100000, 200000}

(* the voltages the guesses give the first terminal of a diode, the second *)
(* being at 0                                                              *)
TensoesDoDiodo == {-2000000, 0, 50000, 90000, 100000, 200000}

(* the guesses handed to the stamp of component i: every pair of terminal  *)
(* voltages for a component that reads them                                *)
ChutesDe(i) ==
    IF componentes[i].tipo \in {"E", "H", "I"} THEN {[k \in 1..MaxDim |-> 0]}
    ELSE IF componentes[i].tipo = "D"
    THEN {[k \in 1..MaxDim |-> IF k = posicao_nos[i][1] + 1 THEN va ELSE 0] :
              va \in TensoesDoDiodo}
    ELSE {[k \in 1..MaxDim |->
              IF k = posicao_nos[i][1] + 1 THEN va
              ELSE IF k = posicao_nos[i][2] + 1 THEN vb ELSE 0] :
                  va \in TensoesDoChute, vb \in {0, 100000}}

(* set_posicao_nos and set_nos_mod with any indices, and fresh matrices *)
Posicionar ==
    /\ pc = "idle"
    /\ \E pos \in [1..num_nos(componentes[1].tipo) -> Indices] :
       \E aux \in [1..num_nos_mod(componentes[1].tipo) -> Indices] :
           /\ posicao_nos' = <<pos>>
           /\ nos_mod' = <<aux>>
    /\ first_iter' = [first_iter EXCEPT ![1] = Armar(componentes[1], @)]
    /\ matrizGn' = ZerosGn
    /\ matrizI' = ZerosI
    /\ pc' = "estampa"
    /\ UNCHANGED <<circuito, nos, com_passo, com_previous, com_idx, locais,
                   resultado, rng, arquivo, erro, simulacao, retorno, memo,
                   com_hist, chute, netlist, importado, chamada>>

(* the instants, in units of 1e-5 s, at which a source is stamped *)
TemposDaFonte == {0, 50000, 150000, 250000, 350000, 450000, 500000, 650000}

TemposDe(i) == IF componentes[i].tipo = "I" THEN TemposDaFonte ELSE {0}

(* the values of com.passo, in units of 1e-5 s, the driver gives a source  *)
(* before it stamps: zero at the first sample, then the step over the      *)
(* number of inner steps                                                   *)
PassosDe(i) ==
    IF componentes[i].tipo = "I" THEN {<<0, 1>>, <<200000, 2>>} ELSE {com_passo[i]}

(* one call of the stamp on the matrices, after the driver set com.passo;  *)
(* tempo is in units of 1e-5 s here                                        *)
Estampar ==
    /\ pc = "estampa"
    /\ iteracoes < MaxEstampas
    /\ \E t \in TemposDe(1), p \in PassosDe(1), guess \in ChutesDe(1) :
           LET r == estampaBE(1, matrizGn, matrizI, t, p, guess)
           IN  /\ tempo' = t
               /\ com_passo' = <<p>>
               /\ chute' = guess
               /\ matrizGn' = r.Gn
               /\ matrizI' = r.I
               /\ erro' = r.erro
               /\ pc' = IF r.erro = "" THEN pc ELSE "error"
    /\ iteracoes' = iteracoes + 1
    /\ UNCHANGED <<circuito, nos, ligacao, com_previous, com_idx,
                   nao_linear, num_vars, max_internal_step, passo_run,
                   previous, passo_interno_atual, n_guesses, n_newton_raphson,
                   tensoes, resultado, rng, arquivo, simulacao, retorno, memo,
                   com_hist, first_iter, netlist, importado, chamada>>

Ganhos == {"0.0", "1.0", "2.0"}

(* v1, i1, v2, i2, v3, i3, v4, i4: three sloped segments; a flat first and *)
(* last segment; points 3 and 4 at the same voltage                        *)
Curvas ==
    {<<"-2.0", "1.0", "-1.0", "2.0", "1.0", "-2.0", "2.0", "-1.0">>,
     <<"0.0", "1.0", "1.0", "1.0", "2.0", "2.0", "1000.0", "2.0">>,
     <<"0.0", "0.0", "1.0", "1.0", "2.0", "2.0", "2.0", "1.0">>}

(* PULSE v1 v2 delay t_rise t_fall t_on period cycles: one cycle; a train   *)
(* without end; no rise time and a negative fall time; rise, plateau and   *)
(* fall longer than the period; a period of zero                           *)
Pulsos ==
    {<<"PULSE", "0.0", "2.0", "1.0", "1.0", "1.0", "1.0", "4.0", "1.0">>,
     <<"PULSE", "0.0", "2.0", "1.0", "1.0", "1.0", "1.0", "4.0", "0.0">>,
     <<"PULSE", "2.0", "-2.0", "0.0", "0.0", "-1.0", "1.0", "4.0", "2.0">>,
     <<"PULSE", "0.0", "2.0", "0.0", "1.0", "1.0", "1.0", "2.0", "0.0">>,
     <<"PULSE", "0.0", "2.0", "0.0", "1.0", "1.0", "1.0", "0.0", "0.0">>}

Estampaveis ==
    {Montar(<<[tipo |-> t, nos |-> <<"1", "0", "2", "0">>, args |-> <<g>>]>>) :
         t \in {"E", "H"}, g \in Ganhos}
    \cup {Montar(<<[tipo |-> "N", nos |-> <<"1", "0">>, args |-> c]>>) : c \in Curvas}
    \cup {Montar(<<D10>>)}
    \cup {Montar(<<[tipo |-> "I", nos |-> <<"1", "0">>, args |-> a]>>) : a \in Pulsos}

InitEstampa ==
    \E comps \in Estampaveis :
        InitCom(comps, 1, 1, "BE", 1, {0}, [i \in 1..StreamLen |-> 0])

NextEstampa == Posicionar \/ Estampar

SpecEstampa == InitEstampa /\ [][NextEstampa]_vars

(* ------------------------ component container ------------------------ *)
MaxLista == 3

(* the Componente objects the caller holds *)
Pecas == {Montar(<<R10, L10, D10>>)[k] : k \in 1..3}

(* the values the caller passes: a Componente object, a string, None *)
Valores ==
    {[classe |-> "Componente", com |-> c] : c \in Pecas}
    \cup {[classe |-> "str"], [classe |-> "NoneType"]}

(* isinstance(componente, Componente) *)
isinstance(v) == v.classe = "Componente"

(* the position, from 1, that python's lista[index] names; 0 when the      *)
(* index is out of range                                                   *)
Posicao(lista, index) ==
    LET k == IF index < 0 THEN index + Len(lista) ELSE index
    IN  IF 0 <= k /\ k < Len(lista) THEN k + 1 ELSE 0

(* the list without its k-th item *)
Sem(lista, k) == SubSeq(lista, 1, k - 1) \o SubSeq(lista, k + 1, Len(lista))

(* the position of the last item equal to v, 0 when there is none *)
Ocorrencia_ultima(lista, v) ==
    IF isinstance(v) /\ \E k \in 1..Len(lista) : lista[k] = v.com
    THEN CHOOSE k \in 1..Len(lista) :
             lista[k] = v.com /\ \A j \in (k + 1)..Len(lista) : lista[j] # v.com
    ELSE 0

(* list.remove looks for the first item equal to v; a Componente equals    *)
(* itself alone; 0 when there is none                                      *)
Ocorrencia(lista, v) ==
    IF isinstance(v) /\ \E k \in 1..Len(lista) : lista[k] = v.com
    THEN CHOOSE k \in 1..Len(lista) :
             lista[k] = v.com /\ \A j \in 1..(k - 1) : lista[j] # v.com
    ELSE 0

Feito(lista) == [erro |-> "", lista |-> lista]

Lancou(e, lista) == [erro |-> e, lista |-> lista]

(* Circuito.append *)
Circuito_append(lista, v) ==
    IF isinstance(v) THEN Feito(Append(lista, v.com)) ELSE Feito(lista)

(* Circuito.__setitem__ *)
Circuito_setitem(lista, index, v) ==
    IF isinstance(v)
    THEN IF Posicao(lista, index) = 0 THEN Lancou("IndexError", lista)
         ELSE Feito([lista EXCEPT ![Posicao(lista, index)] = v.com])
    ELSE Feito(lista)

(* Circuito.remove *)
Circuito_remove(lista, v) ==
    IF Ocorrencia(lista, v) = 0 THEN Lancou("ValueError", lista)
    ELSE Feito(Sem(lista, Ocorrencia(lista, v)))

(* Circuito.pop, Circuito.__delitem__ *)
Circuito_pop(lista, index) ==
    IF Posicao(lista, index) = 0 THEN Lancou("IndexError", lista)
    ELSE Feito(Sem(lista, Posicao(lista, index)))

(* the caller's call op(index, v) on a circuit that is not being simulated; *)
(* the components in the list are as their constructors left them           *)
Chamar(op, index, v, r) ==
    /\ pc = "idle"
    /\ chamada' = [op |-> op, index |-> index, valor |-> v]
    /\ componentes' = r.lista
    /\ erro' = r.erro
    /\ posicao_nos' = [i \in 1..Len(r.lista) |-> <<>>]
    /\ nos_mod' = [i \in 1..Len(r.lista) |-> <<>>]
    /\ com_passo' = [i \in 1..Len(r.lista) |-> <<0, 1>>]
    /\ com_previous' = [i \in 1..Len(r.lista) |-> PreviousInicial(r.lista[i])]
    /\ com_hist' = [i \in 1..Len(r.lista) |-> <<>>]
    /\ first_iter' = [i \in 1..Len(r.lista) |-> FALSE]
    /\ UNCHANGED <<tempo_total, passo, tipo_simulacao, passo_interno, sol_vals,
                   stream, nos, pc, com_idx, locais, resultado, rng, arquivo,
                   simulacao, retorno, memo, chute, netlist, importado, matrizGn,
                   matrizI>>

IndicesDaLista == (0 - MaxLista - 1)..MaxLista

ChamarAppend ==
    /\ Len(componentes) < MaxLista
    /\ \E v \in Valores : Chamar("append", 0, v, Circuito_append(componentes, v))

ChamarSetitem ==
    /\ pc = "idle"
    /\ \E index \in IndicesDaLista, v \in Valores :
           Chamar("__setitem__", index, v, Circuito_setitem(componentes, index, v))

ChamarRemove ==
    /\ pc = "idle"
    /\ \E v \in Valores : Chamar("remove", 0, v, Circuito_remove(componentes, v))

ChamarPop ==
    /\ pc = "idle"
    /\ \E index \in IndicesDaLista :
           Chamar("pop", index, [classe |-> "NoneType"], Circuito_pop(componentes, index))

InitLista == InitCom(<<>>, 1, 1, "BE", 1, {0}, [i \in 1..StreamLen |-> 0])

NextLista == ChamarAppend \/ ChamarSetitem \/ ChamarRemove \/ ChamarPop

SpecLista == InitLista /\ [][NextLista]_vars

(* ============================== claims ================================ *)
RotulosDe(i) == {componentes[i].nos[k] : k \in 1..Len(componentes[i].nos)}

Rotulos == UNION {RotulosDe(i) : i \in 1..Len(componentes)}

TemTerra == GND \in Rotulos

(* the number of distinct node labels, ground included *)
NNodes == Cardinality(Rotulos \cup {GND})

(* label a is met before label b when the components are walked in         *)
(* insertion order, terminals left to right                                *)
Antes(a, b) ==
    \E i \in 1..Len(componentes) : \E k \in 1..Len(componentes[i].nos) :
        /\ componentes[i].nos[k] = a
        /\ \A j \in 1..Len(componentes) : \A l \in 1..Len(componentes[j].nos) :
               componentes[j].nos[l] = b => (i < j \/ (i = j /\ k < l))

(* component i has been through the binding loop of the current run() *)
Ligado(i) ==
    \/ pc \in {"loop", "inner", "newton", "update", "done", "caller"}
    \/ pc = "bind" /\ i < com_idx
    \/ pc = "error" /\ erro # "MissingGround"

(* C1: in a circuit that references ground, the node table run() builds    *)
(* has "0" at index 0, holds every distinct node label exactly once, lists *)
(* the other labels in order of first appearance, and every bound          *)
(* component's pos_nodes[k] is the index (below N_nodes) of its k-th label *)
C1_IndexBinding ==
    (TemTerra /\ nos # <<>>) =>
        /\ Len(nos) >= NNodes
        /\ nos[1] = GND
        /\ \A r \in Rotulos : Cardinality({k \in 1..NNodes : nos[k] = r}) = 1
        /\ \A k1 \in 2..NNodes : \A k2 \in (k1 + 1)..NNodes : Antes(nos[k1], nos[k2])
        /\ \A i \in 1..Len(componentes) : Ligado(i) =>
               /\ Len(posicao_nos[i]) = Len(componentes[i].nos)
               /\ \A k \in 1..Len(posicao_nos[i]) :
                      /\ posicao_nos[i][k] >= 0
                      /\ posicao_nos[i][k] < NNodes
                      /\ nos[posicao_nos[i][k] + 1] = componentes[i].nos[k]

(* a bound circuit whose label "2" is met before "1", with a component     *)
(* bound to the indices <<2, 1>>                                           *)
C1_Witness ==
    /\ pc = "loop"
    /\ TemTerra
    /\ Len(nos) >= 3
    /\ nos[2] = "2"
    /\ nos[3] = "1"
    /\ \E i \in 1..Len(componentes) : posicao_nos[i] = <<2, 1>>

Bloco(i) == {nos_mod[i][k] : k \in 1..Len(nos_mod[i])}

RECURSIVE SomaMod(_)
SomaMod(n) == IF n = 0 THEN 0 ELSE num_nos_mod(componentes[n].tipo) + SomaMod(n - 1)

(* the components bound so far in the current run() *)
NumLigados == IF pc = "bind" THEN com_idx - 1 ELSE Len(componentes)

(* C2: every bound component holds exactly aux_count auxiliary indices, in *)
(* one contiguous block; the blocks are pairwise disjoint, follow the      *)
(* insertion order, start at N_nodes and cover N_nodes..N_total-1, so the  *)
(* aux counts add up to N_total - N_nodes                                  *)
C2_AuxAllocation ==
    pc \in {"bind", "loop"} =>
        /\ \A i \in 1..NumLigados :
               /\ Len(nos_mod[i]) = num_nos_mod(componentes[i].tipo)
               /\ \A k \in 1..(Len(nos_mod[i]) - 1) :
                      nos_mod[i][k + 1] = nos_mod[i][k] + 1
        /\ \A i \in 1..NumLigados : \A j \in (i + 1)..NumLigados :
               \A a \in Bloco(i) : \A b \in Bloco(j) : a < b
        /\ UNION {Bloco(i) : i \in 1..NumLigados} = NNodes..(Len(nos) - 1)
        /\ SomaMod(NumLigados) = Len(nos) - NNodes

(* two components with auxiliary variables, one block of 1 then one of 2 *)
C2_Witness ==
    /\ pc = "loop"
    /\ Len(componentes) = 2
    /\ Len(nos_mod[1]) = 1
    /\ Len(nos_mod[2]) = 2
    /\ nos_mod[2][1] = nos_mod[1][1] + 1

(* C3: when no terminal is labelled "0", every run() and every export()    *)
(* made has failed with MissingGround, and nothing was bound, stamped,     *)
(* solved, recorded or written                                             *)
C3_MissingGround ==
    ~TemTerra =>
        /\ pc \in {"idle", "error"}
        /\ pc = "error" => erro = "MissingGround"
        /\ (nos = <<>>) <=> (erro = "")
        /\ nos # <<>> => erro = "MissingGround"
        /\ \A i \in 1..Len(componentes) :
               /\ posicao_nos[i] = <<>>
               /\ nos_mod[i] = <<>>
               /\ com_passo[i] = <<0, 1>>
        /\ iteracoes = 0
        /\ tensoes = <<>>
        /\ resultado.t = <<>>
        /\ resultado.resultado = <<>>
        /\ arquivo = <<>>

(* run() has failed on a circuit of one component without ground *)
C3_Witness ==
    /\ ~TemTerra
    /\ Len(componentes) = 1
    /\ pc = "error"
    /\ erro = "MissingGround"

(* the states run() is in between the binding and its return *)
EmSimulacao == pc \in {"loop", "inner", "newton", "update"}

(* C4: when a sample has just been appended, the step that produced it ran *)
(* exactly one sub-solve (each followed by update) if it is the first      *)
(* recorded step, and exactly passo_interno sub-solves otherwise           *)
C4_InnerSteps ==
    (pc = "loop" /\ Len(resultado.t) >= 1) =>
        passo_interno_atual = (IF Len(resultado.t) = 1 THEN 1 ELSE passo_interno)

(* every component has been stamped in the current step *)
Estampado ==
    \/ pc = "update"
    \/ pc = "newton" /\ iteracoes > 0
    \/ pc = "inner" /\ passo_interno_atual > 0

(* C5: the stamps made while tempo = 0 see passo / STEP_FACTOR, the stamps *)
(* made at any later tempo see passo, and the recorded time starts at 0    *)
(* and advances by passo after every step, the first one included          *)
C5_ShortenedFirstStep ==
    /\ Estampado =>
           \A i \in 1..Len(componentes) :
               com_passo[i] = (IF tempo = 0 THEN <<passo, STEP_FACTOR>>
                                            ELSE <<passo, 1>>)
    /\ (EmSimulacao \/ pc = "done") =>
           /\ \A k \in 1..Len(resultado.t) :
                  resultado.t[k] = (IF k = 1 THEN 0
                                    ELSE FlAdd(resultado.t[k - 1], passo))
           /\ tempo = (IF resultado.t = <<>> THEN 0
                       ELSE FlAdd(resultado.t[Len(resultado.t)], passo))

(* a later step has stamped its components with the nominal step, after a  *)
(* first step recorded at time 0                                           *)
C5_Witness ==
    /\ pc = "update"
    /\ tempo > 0
    /\ Len(componentes) >= 1
    /\ com_passo[1] = <<passo, 1>>
    /\ Len(resultado.t) >= 1
    /\ resultado.t[1] = 0

CeilDiv(a, b) == (a + b - 1) \div b

(* C6: the trajectory run() returns has ceil(tempo_total / passo) samples  *)
(* for tempo_total > 0 and none for tempo_total <= 0, and its k-th sample  *)
(* is recorded at time (k - 1) * passo                                     *)
C6_TrajectoryShape ==
    pc = "done" =>
        /\ Len(resultado.t) = (IF tempo_total > 0
                               THEN CeilDiv(tempo_total, passo) ELSE 0)
        /\ \A k \in 1..Len(resultado.t) : resultado.t[k] = (k - 1) * passo

(* N_total - 1: the node labels but ground, then the auxiliary variables *)
LarguraEsperada == NNodes + SomaMod(Len(componentes)) - 1

(* C7: the header of the trajectory and every sample in it have exactly    *)
(* N_total - 1 entries, run() never has a row refused, and an append the   *)
(* caller makes either is refused and leaves the trajectory as it was or   *)
(* adds one row of the header's length                                     *)
C7_SampleWidth ==
    /\ []((EmSimulacao \/ pc \in {"done", "caller"}) =>
              /\ Len(resultado.nos) = LarguraEsperada
              /\ Len(resultado.t) = Len(resultado.resultado)
              /\ \A k \in 1..Len(resultado.resultado) :
                     Len(resultado.resultado[k]) = LarguraEsperada)
    /\ [](pc = "error" => erro # "AssertionError")
    /\ [][(pc = "done" /\ pc' = "caller") =>
              IF erro' = "AssertionError"
              THEN resultado' = resultado
              ELSE /\ erro' = ""
                   /\ Len(resultado'.resultado) = Len(resultado.resultado) + 1
                   /\ Len(resultado'.t) = Len(resultado.t) + 1]_vars

(* a trajectory of two samples of width 2 (one node, one auxiliary         *)
(* variable) from which the caller's row of another length was refused     *)
C7_Witness ==
    /\ pc = "caller"
    /\ erro = "AssertionError"
    /\ SomaMod(Len(componentes)) = 1
    /\ Len(resultado.resultado) = 2
    /\ Len(resultado.resultado[1]) = 2
    /\ Len(resultado.resultado[2]) = 2

TodosLineares == \A i \in 1..Len(componentes) : linear(componentes[i].tipo)

(* C8: in a circuit with a nonlinear component, an accepted solution is    *)
(* within TOLERANCIA of the guess of its iteration at every unknown, the   *)
(* two vectors having the same layout                                      *)
C8_NewtonAcceptance ==
    (~TodosLineares /\ pc = "update") =>
        /\ Len(previous) = Len(tensoes)
        /\ \A k \in 1..Len(tensoes) : Abs(tensoes[k] - previous[k]) <= TOLERANCIA

(* C9 as stated: a sub-solve makes at most N_MAX * M_MAX non-converged     *)
(* iterations and has tried at most M_MAX guesses when it fails with       *)
(* NewtonDiverged                                                          *)
C9_NewtonBoundStated ==
    /\ pc = "newton" => iteracoes <= N_MAX * M_MAX
    /\ erro = "NewtonDiverged" =>
           /\ iteracoes <= N_MAX * M_MAX
           /\ n_guesses + 1 <= M_MAX

(* C9: a sub-solve makes at most N_MAX * (M_MAX + 1) non-converged         *)
(* iterations and at most M_MAX re-seeds, M_MAX + 1 guesses with the first *)
(* one; NewtonDiverged is raised exactly when both are used up             *)
C9_NewtonBound ==
    /\ iteracoes <= N_MAX * (M_MAX + 1)
    /\ n_guesses + 1 <= M_MAX + 1
    /\ erro = "NewtonDiverged" =>
           /\ iteracoes = N_MAX * (M_MAX + 1)
           /\ n_guesses + 1 = M_MAX + 1

(* a sub-solve of a nonlinear circuit has failed with NewtonDiverged *)
C9_Witness ==
    /\ ~TodosLineares
    /\ pc = "error"
    /\ erro = "NewtonDiverged"
    /\ iteracoes > N_MAX * M_MAX

(* C10: in a circuit of linear components a sub-solve never iterates: the  *)
(* first solution is accepted after one assembly and one solve, no re-seed *)
(* is made and NewtonDiverged is never raised                              *)
C10_LinearCircuits ==
    TodosLineares =>
        /\ iteracoes <= 1
        /\ n_guesses = 0
        /\ n_newton_raphson = 0
        /\ erro # "NewtonDiverged"
        /\ pc = "newton" => iteracoes = 0
        /\ pc = "update" => iteracoes = 1
        /\ (pc = "inner" /\ passo_interno_atual > 0) => iteracoes = 1

(* a linear circuit whose solution was accepted far from the random guess, *)
(* in the layout the code compares and in the layout of the unknowns       *)
C10_Witness ==
    /\ TodosLineares
    /\ Len(componentes) >= 1
    /\ pc = "update"
    /\ \E k \in 1..Len(previous) : Abs(tensoes[k] - previous[k]) > TOLERANCIA
    /\ \E k \in 1..Len(previous) : Abs(tensoes[k + 1] - previous[k]) > TOLERANCIA

(* C11: the history values change in no step of run() but the update that *)
(* follows an accepted sub-solve, where a capacitor takes x[a] - x[b] and  *)
(* an inductor x[jx] of the accepted x and every other component keeps its *)
(* value; that update is made once per accepted sub-solve, and a sample is *)
(* appended only after it                                                  *)
C11_HistoryDiscipline ==
    /\ [][com_previous' # com_previous => (pc = "update" /\ pc' = "inner")]_vars
    /\ [][pc = "update" =>
              /\ pc' = "inner"
              /\ passo_interno_atual' = passo_interno_atual + 1
              /\ tensoes' = tensoes
              /\ resultado' = resultado
              /\ \A i \in 1..Len(componentes) :
                     com_previous'[i] =
                         CASE componentes[i].tipo = "C" ->
                                  tensoes[posicao_nos[i][1] + 1]
                                  - tensoes[posicao_nos[i][2] + 1]
                           [] componentes[i].tipo = "L" -> tensoes[nos_mod[i][1] + 1]
                           [] OTHER -> com_previous[i]]_vars
    /\ [][(EmSimulacao /\ resultado' # resultado) =>
              (pc = "inner" /\ passo_interno_atual >= 1)]_vars

(* a capacitor between two ungrounded nodes has taken x[a] - x[b] of an    *)
(* accepted solution with x[b] # 0, a value other than its initial         *)
(* condition                                                               *)
C11_Witness ==
    /\ pc = "inner"
    /\ passo_interno_atual = 1
    /\ Len(componentes) = 2
    /\ componentes[1].tipo = "C"
    /\ posicao_nos[1] = <<1, 2>>
    /\ tensoes[3] # 0
    /\ com_previous[1] = tensoes[2] - tensoes[3]
    /\ com_previous[1] # Val(ic(componentes[1]))

Reativo(i) == componentes[i].tipo \in {"L", "C"}

(* what update() of component i stores from the sample last recorded *)
DoUltimoRegistro(i) ==
    LET x == <<0>> \o resultado.resultado[Len(resultado.resultado)]
    IN  IF componentes[i].tipo = "C"
        THEN x[posicao_nos[i][1] + 1] - x[posicao_nos[i][2] + 1]
        ELSE x[nos_mod[i][1] + 1]

(* C12: once every component has been stamped in a step, the history term  *)
(* a capacitor or inductor stamp used is the component's IC value in the   *)
(* first step of the run and the value its last update() stored in every   *)
(* later step, in a first run() and in a run() made again on the circuit   *)
C12_InitialConditions ==
    (Estampado /\ tipo_simulacao = "BE") =>
        \A i \in 1..Len(componentes) : Reativo(i) =>
            com_hist[i] = (IF resultado.t = <<>>
                           THEN <<Val(ic(componentes[i]))>>
                           ELSE <<DoUltimoRegistro(i)>>)

(* the first step of a second run() has stamped a capacitor or inductor    *)
(* with its IC value while the history the first run left is another value *)
C12_Witness ==
    /\ pc = "update"
    /\ Len(retorno) = 1
    /\ resultado.t = <<>>
    /\ \E i \in 1..Len(componentes) :
           /\ Reativo(i)
           /\ com_previous[i] # Val(ic(componentes[i]))
           /\ com_hist[i] = <<Val(ic(componentes[i]))>>

Ultimo(seq) == seq[Len(seq)]

(* C14: when run() has ended with an error its caller was given the error  *)
(* and no trajectory, whatever samples were recorded before; nothing is    *)
(* solved, recorded or returned after the error, and the system that the   *)
(* solver refused is kept as refused                                       *)
C14_NoPartialResult ==
    /\ [](pc = "error" =>
              /\ retorno # <<>>
              /\ Ultimo(retorno) = [ok |-> FALSE, erro |-> erro, res |-> <<>>])
    /\ [](\A k \in 1..Len(retorno) : ~retorno[k].ok => retorno[k].res = <<>>)
    /\ []((pc = "error" /\ erro = "LinAlgError") =>
              \E m \in memo : ~m.r.ok)
    /\ [][pc = "error" =>
              /\ pc' = "error"
              /\ UNCHANGED <<tensoes, iteracoes, resultado, retorno, memo>>]_vars

(* a singular system has ended run() after two samples were recorded *)
C14_Witness ==
    /\ pc = "error"
    /\ erro = "LinAlgError"
    /\ Len(resultado.t) = 2
    /\ ~Ultimo(retorno).ok

SemEstampa == tipo_simulacao \in {"FE", "TRAP"} /\ Len(componentes) >= 1

(* C15 as stated: no run() of a circuit with a component and the method FE *)
(* or TRAP returns                                                         *)
C15_UnimplementedStated ==
    SemEstampa => \A k \in 1..Len(retorno) : ~retorno[k].ok

(* C15: with ground among its nodes and tempo_total > 0, every run() of a  *)
(* circuit with a component and the method FE or TRAP ends with            *)
(* NotImplementedError at the stamp of the first component of the first    *)
(* pass: no system is solved, no sample recorded, no later component       *)
(* stamped                                                                 *)
C15_Unimplemented ==
    (SemEstampa /\ TemTerra /\ tempo_total > 0) =>
        /\ pc \in {"idle", "bind", "loop", "inner", "newton", "error"}
        /\ \A k \in 1..Len(retorno) : retorno[k] = Lancar("NotImplementedError")
        /\ pc = "error" =>
               /\ erro = "NotImplementedError"
               /\ retorno # <<>>
               /\ com_passo[1] = <<passo, STEP_FACTOR>>
               /\ tempo = 0
        /\ \A i \in 2..Len(componentes) : com_passo[i] = <<0, 1>>
        /\ iteracoes = 0
        /\ memo = {}
        /\ tensoes = <<>>
        /\ resultado.t = <<>>
        /\ resultado.resultado = <<>>

(* run() of a circuit of two components under TRAP has failed *)
C15_Witness ==
    /\ tipo_simulacao = "TRAP"
    /\ Len(componentes) = 2
    /\ pc = "error"
    /\ erro = "NotImplementedError"


(* C16: a file written by export holds, in this order, the number of       *)
(* distinct node labels other than ground (auxiliary variables not         *)
(* counted, also after run()), one line per component in insertion order   *)
(* equal to str(component), and the line 'simulacao t_total step type      *)
(* inner_steps'; the component list is never changed                       *)
C16_ExportFormat ==
    /\ [](arquivo # <<>> =>
            /\ TemTerra
            /\ Len(arquivo) = Len(componentes) + 2
            /\ arquivo[1] = <<ToString(NNodes - 1)>>
            /\ \A i \in 1..Len(componentes) : arquivo[i + 1] = str(componentes[i])
            /\ arquivo[Len(arquivo)] = simulacao \o <<ToString(tempo_total),
                                         ToString(passo), tipo_simulacao,
                                         ToString(passo_interno)>>)
    /\ [][componentes' = componentes]_vars

(* an export made after run() of the inductor and capacitor circuit, whose *)
(* node list held one auxiliary variable                                   *)
C16_Witness ==
    /\ pc = "done"
    /\ Len(retorno) = 1
    /\ SomaMod(Len(componentes)) = 1
    /\ Len(nos) = NNodes
    /\ arquivo = << <<"1">>,
                    <<"L", "1", "1", "0", "1.0", "IC=3e-05">>,
                    <<"C", "2", "1", "0", "1.0">>,
                    <<".", "TRAN", ToString(tempo_total), "1", "BE", "1">> >>


(* the component block of a file: the lines after the first up to the      *)
(* first line that begins with '.', or up to the end of the file           *)
RECURSIVE FimDoBloco(_, _)
FimDoBloco(f, k) ==
    IF k > Len(f) THEN k
    ELSE IF f[k] # <<>> /\ f[k][1] = "." THEN k
    ELSE FimDoBloco(f, k + 1)

BlocoDe(f) == SubSeq(f, 2, FimDoBloco(f, 2) - 1)

(* the numbers of space-separated fields a line of each variant may have,  *)
(* the label included                                                      *)
Aridades(line) ==
    CASE line[1] = "R" -> {4}
      [] line[1] \in {"L", "C"} -> {4, 5}
      [] line[1] = "N" -> {11}
      [] line[1] \in {"E", "F", "G", "H"} -> {6}
      [] line[1] = "O" -> {4}
      [] line[1] = "D" -> {3}
      [] line[1] = "M" -> {10}
      [] line[1] \in {"I", "V"} ->
             IF Len(line) < 5 THEN {}
             ELSE CASE line[5] = "DC" -> {5}
                    [] line[5] = "SIN" -> {11}
                    [] line[5] = "PULSE" -> {12}
                    [] OTHER -> {}
      [] OTHER -> {}

LinhaDeReferencia(line) ==
    /\ line # <<>>
    /\ line[1] \in Tipos
    /\ (Len(line) - 1) \in Aridades(line)
    /\ \A k \in (3 + num_nos(line[1]))..Len(line) :
           \/ line[k] \in Numerais
           \/ line[1] \in {"L", "C"} /\ k = 6 /\ \E n \in Numerais : line[k] = "IC=" \o n
           \/ line[1] = "M" /\ k = 6 /\ line[k] \in {"N", "P"}
           \/ line[1] \in {"I", "V"} /\ k = 5

(* a reference-style netlist: the number of nodes other than ground, one   *)
(* well-formed component line per component, the stepper line              *)
NetlistDeReferencia(f) ==
    /\ Len(f) >= 3
    /\ \A k \in 2..(Len(f) - 1) : LinhaDeReferencia(f[k])
    /\ LET rot == UNION {{f[k][j] : j \in 3..(2 + num_nos(f[k][1]))} :
                             k \in 2..(Len(f) - 1)}
       IN  GND \in rot /\ f[1] = <<ToString(Cardinality(rot \ {GND}))>>
    /\ LET l == f[Len(f)]
       IN  /\ Len(l) = 6
           /\ l[1] = "." /\ l[2] \in {"TRAN"}
           /\ l[3] \in Numerais /\ l[4] \in Numerais
           /\ l[5] \in {"BE", "FE", "TRAP"}
           /\ l[6] \in {"1", "2"}

(* C17: the text export writes for the circuit import_netlist built from a *)
(* reference-style netlist is that netlist, line by line and field by      *)
(* field                                                                   *)
C17_RoundTrip ==
    (NetlistDeReferencia(netlist) /\ pc = "exportado") => arquivo = netlist

(* C18: import_netlist of a file whose component block has a line with an  *)
(* unknown first character or with a number of fields that does not match  *)
(* its variant fails with MalformedNetlist and returns no circuit          *)
C18_MalformedNetlist ==
    (/\ pc # "idle"
     /\ \E k \in 1..Len(BlocoDe(netlist)) :
            LET line == BlocoDe(netlist)[k]
            IN  \/ line = <<>>
                \/ line[1] \notin Tipos
                \/ (Len(line) - 1) \notin Aridades(line))
    => (~importado[1].ok /\ importado[1].erro = "MalformedNetlist")


(* a re-seed is due: the circuit is nonlinear and N_MAX iterations have    *)
(* failed since the last guess was drawn                                   *)
ReseedDevido == ~TodosLineares /\ n_newton_raphson = N_MAX

(* C19: within a sub-solve of a nonlinear circuit every iteration made so  *)
(* far has failed, N_MAX for each re-seed made plus those counted since;   *)
(* an iteration draws a fresh random guess exactly when a re-seed is due,  *)
(* which adds one to the guess count and restarts the iteration count,     *)
(* and otherwise works on the vector kept from the previous iteration,     *)
(* which after a non-converged iteration is the solution just computed;    *)
(* the run fails with NewtonDiverged exactly when a re-seed is due and the *)
(* guess count is M_MAX; both counters are zero when a sub-solve starts    *)
C19_ReseedProtocol ==
    /\ []((pc = "newton" /\ ~TodosLineares) =>
              /\ iteracoes = n_guesses * N_MAX + n_newton_raphson
              /\ n_newton_raphson <= N_MAX
              /\ n_guesses <= M_MAX)
    /\ [][(pc = "newton" /\ ~TodosLineares) =>
              /\ (erro' = "NewtonDiverged") <=> (ReseedDevido /\ n_guesses = M_MAX)
              /\ erro' # "NewtonDiverged" =>
                     /\ ReseedDevido =>
                            /\ chute' = Rand(rng, num_vars)
                            /\ rng' = (rng + num_vars) % StreamLen
                            /\ n_guesses' = n_guesses + 1
                            /\ n_newton_raphson' = IF pc' = "newton" THEN 1 ELSE 0
                     /\ ~ReseedDevido =>
                            /\ chute' = previous
                            /\ rng' = rng
                            /\ n_guesses' = n_guesses
                            /\ n_newton_raphson' =
                                   n_newton_raphson + IF pc' = "newton" THEN 1 ELSE 0
                     /\ pc' = "newton" => previous' = tensoes']_vars
    /\ [][(pc = "inner" /\ pc' = "newton") =>
              n_guesses' = 0 /\ n_newton_raphson' = 0 /\ iteracoes' = 0]_vars

(* the second iteration after the first re-seed of a sub-solve has failed, *)
(* having worked on the solution of the one before it                      *)
C19_Witness ==
    /\ ~TodosLineares
    /\ pc = "newton"
    /\ n_guesses = 1
    /\ n_newton_raphson = 2
    /\ iteracoes = N_MAX + 2
    /\ previous = tensoes
    /\ chute # Rand(rng, num_vars)


(* what the calls of the stamp of the voltage-controlled voltage source    *)
(* have added to entry e: sinal on [a,jx], -sinal on [b,jx], the gain on   *)
(* [jx,c], minus the gain on [jx,d], -1 on [jx,a] and 1 on [jx,b],         *)
(* contributions to the same entry adding up                               *)
ParcelasE(e, sinal) ==
    LET a  == posicao_nos[1][1]
        b  == posicao_nos[1][2]
        c  == posicao_nos[1][3]
        d  == posicao_nos[1][4]
        jx == nos_mod[1][1]
        um == Val("1.0")
        ganho == Val(componentes[1].args[1])
    IN  (IF e = <<a, jx>> THEN sinal * um ELSE 0)
        + (IF e = <<b, jx>> THEN (0 - sinal) * um ELSE 0)
        + (IF e = <<jx, c>> THEN ganho ELSE 0)
        + (IF e = <<jx, d>> THEN 0 - ganho ELSE 0)
        + (IF e = <<jx, a>> THEN 0 - um ELSE 0)
        + (IF e = <<jx, b>> THEN um ELSE 0)

EstampadoE == pc = "estampa" /\ componentes[1].tipo = "E"

(* C20 as stated: each call of the stamp of E subtracts 1 from G[a,jx] and *)
(* adds 1 to G[b,jx], adds the gain to G[jx,c] and subtracts it from       *)
(* G[jx,d], subtracts 1 from G[jx,a] and adds 1 to G[jx,b], and changes    *)
(* nothing else of G nor i                                                 *)
C20_VCVSStampStated ==
    EstampadoE =>
        /\ \A e \in Indices \X Indices : matrizGn[e] = iteracoes * ParcelasE(e, -1)
        /\ matrizI = ZerosI

(* C20: each call of the stamp of E adds 1 to G[a,jx] and subtracts 1 from *)
(* G[b,jx], adds the gain to G[jx,c] and subtracts it from G[jx,d],        *)
(* subtracts 1 from G[jx,a] and adds 1 to G[jx,b] (contributions to the    *)
(* same entry add up), and changes nothing else of G nor i                 *)
C20_VCVSStamp ==
    /\ [](EstampadoE =>
              /\ \A e \in Indices \X Indices : matrizGn[e] = iteracoes * ParcelasE(e, 1)
              /\ matrizI = ZerosI)
    /\ [][(EstampadoE /\ iteracoes' = iteracoes + 1) =>
              /\ \A e \in Indices \X Indices :
                     matrizGn'[e] = matrizGn[e] + ParcelasE(e, 1)
              /\ matrizI' = matrizI]_vars

(* the stamp was applied twice with five distinct indices and gain 2       *)
C20_Witness ==
    /\ EstampadoE
    /\ iteracoes = 2
    /\ Cardinality({posicao_nos[1][k] : k \in 1..4} \cup {nos_mod[1][1]}) = 5
    /\ componentes[1].args = <<"2.0">>
    /\ matrizGn[<<posicao_nos[1][1], nos_mod[1][1]>>] = 2 * Val("1.0")
    /\ matrizGn[<<nos_mod[1][1], posicao_nos[1][4]>>] = 0 - 2 * Val("2.0")


(* the stamp of a current-controlled voltage source has been applied to a  *)
(* binding as the index binding makes them: the auxiliary indices differ   *)
(* from each other and from the terminals', and neither pair is shorted    *)
EstampadoH ==
    /\ pc = "estampa"
    /\ componentes[1].tipo = "H"
    /\ iteracoes >= 1
    /\ nos_mod[1][1] # nos_mod[1][2]
    /\ \A k \in 1..4 : posicao_nos[1][k] \notin {nos_mod[1][1], nos_mod[1][2]}
    /\ posicao_nos[1][1] # posicao_nos[1][2]
    /\ posicao_nos[1][3] # posicao_nos[1][4]

(* row r of Gn has entries only in the columns of S *)
LinhaSoEm(r, S) == \A k \in Indices \ S : matrizGn[<<r, k>>] = 0

(* C21: after the stamp of H with nodes [a, b, c, d], the row of jy holds  *)
(* the constraint V_c = V_d of the controlling short with no rm term, the  *)
(* row of jx holds the output voltage V_a - V_b with rm times the current  *)
(* jy of the controlling short, the columns of jx and jy hold the          *)
(* incidences of the branches a-b and c-d, and i is unchanged              *)
C21_CCVSStamp ==
    EstampadoH =>
        LET a  == posicao_nos[1][1]
            b  == posicao_nos[1][2]
            c  == posicao_nos[1][3]
            d  == posicao_nos[1][4]
            jx == nos_mod[1][1]
            jy == nos_mod[1][2]
            rm == Val(componentes[1].args[1])
        IN  /\ LinhaSoEm(jy, {c, d})
            /\ matrizGn[<<jy, c>>] = 0 - matrizGn[<<jy, d>>]
            /\ Abs(matrizGn[<<jy, c>>]) = iteracoes * Val("1.0")
            /\ LinhaSoEm(jx, {a, b, jy})
            /\ matrizGn[<<jx, a>>] = 0 - matrizGn[<<jx, b>>]
            /\ Abs(matrizGn[<<jx, a>>]) = iteracoes * Val("1.0")
            /\ Abs(matrizGn[<<jx, jy>>]) = iteracoes * rm
            /\ matrizGn[<<a, jx>>] = 0 - matrizGn[<<b, jx>>]
            /\ matrizGn[<<c, jy>>] = 0 - matrizGn[<<d, jy>>]
            /\ matrizI = ZerosI


(* the k-th point of the curve of the piecewise-linear resistor *)
PontoV(k) == Val(componentes[1].args[2 * k - 1])

PontoI(k) == Val(componentes[1].args[2 * k])

(* the segment between the points k and k + 1 is the one the claim names   *)
(* for the voltage vab                                                     *)
SegmentoDito(k, vab) ==
    CASE k = 3 -> vab > PontoV(3)
      [] k = 2 -> PontoV(2) < vab /\ vab <= PontoV(3)
      [] k = 1 -> vab <= PontoV(2)

(* entry e of G after a resistor of conductance g between a and b *)
ComResistor(G, e, a, b, g) ==
    G[e] + (IF e = <<a, a>> THEN g ELSE 0) + (IF e = <<b, b>> THEN g ELSE 0)
         - (IF e = <<a, b>> THEN g ELSE 0) - (IF e = <<b, a>> THEN g ELSE 0)

(* entry k of i after a current source i0 from a to b *)
ComFonte(I, k, a, b, i0) ==
    I[k] - (IF k = a THEN i0 ELSE 0) + (IF k = b THEN i0 ELSE 0)

(* C22: a call of the stamp of the piecewise-linear resistor with the      *)
(* guess voltage v_ab = guess[a] - guess[b] uses the segment (v3,i3)-      *)
(* (v4,i4) iff v_ab > v3, (v2,i2)-(v3,i3) iff v2 < v_ab <= v3 and          *)
(* (v1,i1)-(v2,i2) iff v_ab <= v2; with g the slope of that segment and    *)
(* i0 = i_hi - g*v_hi it adds to G and i what a resistor 1/g between a and *)
(* b and a current source i0 from a to b add, and nothing else; a segment  *)
(* without a slope or with slope zero makes the call fail with             *)
(* ZeroDivisionError, nothing having been written                          *)
C22_SegmentChoice ==
    [][(pc = "estampa" /\ componentes[1].tipo = "N" /\ iteracoes' = iteracoes + 1) =>
          LET a   == posicao_nos[1][1]
              b   == posicao_nos[1][2]
              vab == chute'[a + 1] - chute'[b + 1]
          IN  /\ Cardinality({k \in 1..3 : SegmentoDito(k, vab)}) = 1
              /\ \A k \in 1..3 : SegmentoDito(k, vab) =>
                     LET di == PontoI(k + 1) - PontoI(k)
                         dv == PontoV(k + 1) - PontoV(k)
                     IN  IF dv = 0 \/ di = 0
                         THEN /\ erro' = "ZeroDivisionError"
                              /\ matrizGn' = matrizGn
                              /\ matrizI' = matrizI
                         ELSE LET g  == MulDiv(di, Val("1.0"), dv)
                                  i0 == PontoI(k + 1) - MulDiv(di, PontoV(k + 1), dv)
                              IN  /\ erro' = ""
                                  /\ \A e \in Indices \X Indices :
                                         matrizGn'[e] = ComResistor(matrizGn, e, a, b, g)
                                  /\ \A n \in Indices :
                                         matrizI'[n] = ComFonte(matrizI, n, a, b, i0)]_vars

(* the stamp was called with v_ab = v3 = 1 on the curve of three sloped    *)
(* segments and used the middle one, of slope -2 and i0 = 0                *)
C22_Witness ==
    /\ pc = "estampa"
    /\ componentes[1].tipo = "N"
    /\ componentes[1].args[1] = "-2.0"
    /\ iteracoes = 1
    /\ posicao_nos[1][1] # posicao_nos[1][2]
    /\ chute[posicao_nos[1][1] + 1] - chute[posicao_nos[1][2] + 1] = PontoV(3)
    /\ matrizGn[<<posicao_nos[1][1], posicao_nos[1][1]>>] = 0 - 2 * Val("1.0")
    /\ matrizI = ZerosI


(* C24: a call of the diode stamp with a guess of v_ab > 0.9 writes what   *)
(* it writes at v_ab = 0.9; when the conductance g0 computed is zero it    *)
(* adds nothing to G and the current source alone to i, without failing;   *)
(* otherwise it adds a resistor 1/g0 between a and b and the current       *)
(* source from a to b                                                      *)
C24_DiodeGuards ==
    [][(pc = "estampa" /\ componentes[1].tipo = "D" /\ iteracoes' = iteracoes + 1) =>
          LET a   == posicao_nos[1][1]
              b   == posicao_nos[1][2]
              vab == chute'[a + 1] - chute'[b + 1]
              v   == IF vab > 90000 THEN 90000 ELSE vab
          IN  /\ erro' = ""
              /\ pc' = "estampa"
              /\ \A n \in Indices : matrizI'[n] = ComFonte(matrizI, n, a, b, Diodo_id(v))
              /\ IF Diodo_g0(v).zero
                 THEN matrizGn' = matrizGn
                 ELSE \A e \in Indices \X Indices :
                          matrizGn'[e] = ComResistor(matrizGn, e, a, b, Diodo_g0(v).g)]_vars

(* the stamp was called at 0.9 V or above and then at v_ab = -20 V, where  *)
(* g0 is zero: G holds the conductance of 0.9 V alone                      *)
C24_Witness ==
    /\ pc = "estampa"
    /\ componentes[1].tipo = "D"
    /\ iteracoes = 2
    /\ posicao_nos[1][1] # posicao_nos[1][2]
    /\ chute[posicao_nos[1][1] + 1] = -2000000
    /\ matrizGn[<<posicao_nos[1][1], posicao_nos[1][1]>>] = Diodo_g0(90000).g
    /\ matrizI[posicao_nos[1][2]] = Diodo_id(90000)


(* a pass of the Newton loop of a backward-Euler run is about to be made   *)
(* in which component i is a MOSFET                                        *)
PasseComMosfet(i) ==
    /\ pc = "newton"
    /\ tipo_simulacao = "BE"
    /\ i \in 1..Len(componentes)
    /\ componentes[i].tipo = "M"

(* no pass has been made yet in this run() *)
PrimeiroPasse == resultado.t = <<>> /\ iteracoes = 0

(* the gate voltage of MOSFET i in the guess g: vg - vs (N) or -(vg - vs)  *)
(* (P), vs being the lower (N) or the higher (P) of the two channel        *)
(* terminals                                                               *)
VgsDoChute(i, g) ==
    LET vd == g[posicao_nos[i][1] + 1]
        vg == g[posicao_nos[i][2] + 1]
        vs == g[posicao_nos[i][3] + 1]
    IN  IF componentes[i].args[1] = "N"
        THEN vg - (IF vd < vs THEN vd ELSE vs)
        ELSE 0 - (vg - (IF vd > vs THEN vd ELSE vs))

PulsoEstampado ==
    /\ pc = "estampa"
    /\ componentes[1].tipo = "I"
    /\ componentes[1].args[1] = "PULSE"
    /\ iteracoes' = iteracoes + 1

(* parameter k of the PULSE source, in the order v1, v2, delay, t_rise,    *)
(* t_fall, t_on, period, cycles                                            *)
Par(k) == Val(componentes[1].args[k + 1])

(* the value the text gives the pulse at time t with the current step      *)
(* dt[1]/dt[2]; times are compared after multiplication by dt[2]           *)
PulsoDito(t, dt) ==
    LET v1  == Par(1)
        v2  == Par(2)
        d   == dt[2]
        tr  == IF Par(4) > 0 THEN Par(4) * d ELSE dt[1]
        tf  == IF Par(5) > 0 THEN Par(5) * d ELSE dt[1]
        ton == Par(6) * d
        tau == ((t - Par(3)) % Par(7)) * d
    IN  IF t < Par(3) THEN v1
        ELSE IF Par(8) > 0 /\ t >= Par(3) + (Par(8) \div Val("1.0")) * Par(7) THEN v1
        ELSE IF tau < tr THEN v1 + MulDiv(v2 - v1, tau, tr)
        ELSE IF tau < tr + ton THEN v2
        ELSE IF tau < tr + ton + tf THEN v2 - MulDiv(v2 - v1, tau - (tr + ton), tf)
        ELSE v1

(* C25: for a PULSE source with period > 0, stamped at time t with current *)
(* step dt, the value is v1 before the delay and, when cycles > 0, from    *)
(* delay + cycles*period on; otherwise, at tau = (t - delay) mod period,   *)
(* the ramp v1->v2 on [0, t_rise'), v2 on [t_rise', t_rise'+t_on), the ramp *)
(* v2->v1 on [t_rise'+t_on, t_rise'+t_on+t_fall') and v1 on the rest, with *)
(* t_rise' = t_rise if t_rise > 0 else dt (same for t_fall'); with         *)
(* cycles = 0 the train never ends.  The value is seen in what the current *)
(* source adds to i                                                        *)
C25_PulseWaveform ==
    [][(PulsoEstampado /\ Par(7) > 0) =>
          /\ erro' = ""
          /\ \A n \in Indices :
                 matrizI'[n] = ComFonte(matrizI, n, posicao_nos[1][1], posicao_nos[1][2],
                                        PulsoDito(tempo', com_passo'[1]))]_vars

(* the one-cycle pulse 0 -> 2 (delay 1, rise 1, on 1, fall 1) was stamped  *)
(* once, half way down its falling ramp at t = 3.5: the value was 1        *)
C25_Witness ==
    /\ pc = "estampa"
    /\ componentes[1].tipo = "I"
    /\ componentes[1].args = <<"PULSE", "0.0", "2.0", "1.0", "1.0", "1.0", "1.0", "4.0", "1.0">>
    /\ iteracoes = 1
    /\ tempo = 350000
    /\ posicao_nos[1][1] # posicao_nos[1][2]
    /\ matrizI[posicao_nos[1][2]] = Val("1.0")
    /\ matrizI[posicao_nos[1][1]] = 0 - Val("1.0")

Menor(x, y) == IF x < y THEN x ELSE y

Maior(x, y) == IF x < y THEN y ELSE x

(* C28: for a PULSE source with period > 0 and t_on >= 0, stamped at any   *)
(* time with any current step >= 0, the value the stamp adds to i at its   *)
(* second terminal lies between min(v1, v2) and max(v1, v2) inclusive and  *)
(* the evaluation does not fail, also when t_rise' + t_on + t_fall'        *)
(* exceeds the period and when t_rise or t_fall is zero or negative        *)
C28_PulseRange ==
    [][(/\ PulsoEstampado
        /\ Par(7) > 0
        /\ Par(6) >= 0
        /\ com_passo'[1][1] >= 0
        /\ posicao_nos[1][1] # posicao_nos[1][2]) =>
          LET valor == matrizI'[posicao_nos[1][2]] - matrizI[posicao_nos[1][2]]
          IN  /\ erro' = ""
              /\ Menor(Par(1), Par(2)) <= valor
              /\ valor <= Maior(Par(1), Par(2))
              /\ matrizI'[posicao_nos[1][1]] - matrizI[posicao_nos[1][1]] = 0 - valor]_vars

(* the pulse 2 -> -2 with t_rise = 0 and t_fall = -1 was stamped at t = 0   *)
(* with a current step of zero: no ramp, the value was v2 = -2              *)
C28_Witness ==
    /\ pc = "estampa"
    /\ componentes[1].tipo = "I"
    /\ componentes[1].args[5] = "0.0"
    /\ componentes[1].args[6] = "-1.0"
    /\ iteracoes = 1
    /\ tempo = 0
    /\ com_passo[1] = <<0, 1>>
    /\ posicao_nos[1][1] # posicao_nos[1][2]
    /\ matrizI[posicao_nos[1][2]] = Val("-2.0")


(* C26: the guess handed to the stamps in a pass of the Newton loop - the  *)
(* random vector of the start of a step, the random vector of a re-seed or *)
(* the previous iterate - has N_total = num_vars + 1 entries, entry 0      *)
(* (ground) being 0, so that terminal k is read at posicao_nos[k], and no  *)
(* stamp indexes past its end                                              *)
C26_GuessAlignment ==
    [][(pc = "newton" /\ erro' # "NewtonDiverged") =>
          /\ Len(chute') = num_vars + 1
          /\ chute'[1] = 0
          /\ erro' # "IndexError"]_vars


(* every item of the list is one of the Componente objects *)
SoComponentes(lista) == \A k \in 1..Len(lista) : lista[k] \in Pecas

(* b is a with one item taken out *)
UmaMenos(a, b) ==
    \E k \in 1..Len(a) : b = SubSeq(a, 1, k - 1) \o SubSeq(a, k + 1, Len(a))

(* the call of this step is append or __setitem__ of a value that is not a *)
(* Componente                                                              *)
ValorRecusado ==
    /\ chamada'.op \in {"append", "__setitem__"}
    /\ chamada'.valor.classe # "Componente"

(* C27 as stated: after every call of append, __setitem__, remove or pop   *)
(* the list holds Componente objects only, in the order they were appended *)
(* minus the removed ones - a call leaves the list as it was, adds one     *)
(* item at its end or takes one item out; append or __setitem__ of a value *)
(* that is not a Componente leaves the list unchanged and raises nothing   *)
C27_ContainerStated ==
    [][/\ SoComponentes(componentes')
       /\ \/ componentes' = componentes
          \/ \E c \in Pecas : componentes' = Append(componentes, c)
          \/ UmaMenos(componentes, componentes')
       /\ ValorRecusado => (componentes' = componentes /\ erro' = "")]_vars

(* C27: after every call the list holds Componente objects only; append of *)
(* a Componente adds it at the end; __setitem__ of a Componente puts it in *)
(* the place of the item at a valid index (IndexError otherwise), the      *)
(* other items staying where they are; remove takes out the first item     *)
(* that is the given object (ValueError when there is none); pop takes out *)
(* the item at a valid index (IndexError otherwise); the remaining items   *)
(* keep their order; a failed call and append or __setitem__ of a value    *)
(* that is not a Componente leave the list unchanged, the latter raising   *)
(* nothing                                                                 *)
C27_Container ==
    [][LET c   == chamada'
           n   == Len(componentes)
           k   == IF c.index < 0 THEN c.index + n + 1 ELSE c.index + 1
           tem == c.valor.classe = "Componente"
       IN  /\ SoComponentes(componentes')
           /\ erro' # "" => componentes' = componentes
           /\ ValorRecusado => (componentes' = componentes /\ erro' = "")
           /\ (c.op = "append" /\ tem) =>
                  (componentes' = componentes \o <<c.valor.com>> /\ erro' = "")
           /\ (c.op = "__setitem__" /\ tem) =>
                  IF k \in 1..n
                  THEN /\ erro' = ""
                       /\ Len(componentes') = n
                       /\ \A j \in 1..n :
                              componentes'[j] = (IF j = k THEN c.valor.com
                                                          ELSE componentes[j])
                  ELSE erro' = "IndexError"
           /\ c.op = "remove" =>
                  IF tem /\ \E j \in 1..n : componentes[j] = c.valor.com
                  THEN /\ erro' = ""
                       /\ \E j \in 1..n :
                              /\ componentes[j] = c.valor.com
                              /\ \A m \in 1..(j - 1) : componentes[m] # c.valor.com
                              /\ componentes' = SubSeq(componentes, 1, j - 1)
                                                 \o SubSeq(componentes, j + 1, n)
                  ELSE erro' = "ValueError"
           /\ c.op = "pop" =>
                  IF k \in 1..n
                  THEN /\ erro' = ""
                       /\ componentes' = SubSeq(componentes, 1, k - 1)
                                          \o SubSeq(componentes, k + 1, n)
                  ELSE erro' = "IndexError"]_vars

(* __setitem__(-1, x) has put a Componente in the place of the last of     *)
(* three items; the list holds three different objects                     *)
C27_Witness ==
    /\ pc = "idle"
    /\ chamada.op = "__setitem__"
    /\ chamada.index = 0 - 1
    /\ chamada.valor.classe = "Componente"
    /\ erro = ""
    /\ Len(componentes) = 3
    /\ componentes[3] = chamada.valor.com
    /\ componentes[1] # componentes[3]
    /\ componentes[2] # componentes[3]
    /\ componentes[1] # componentes[2]


(* C29: with passo > 0 run() makes at most ceil(tempo_total / passo) outer  *)
(* steps, a sub-solve makes at most N_MAX * (M_MAX + 1) passes, and every   *)
(* outer step that records its sample leaves the loop time greater than it *)
(* found it, so that no time value is repeated                             *)
C29_Termination ==
    [][/\ passo > 0 =>
              Len(resultado'.t) <= (IF tempo_total > 0
                                    THEN CeilDiv(tempo_total, passo) ELSE 0)
       /\ iteracoes' <= N_MAX * (M_MAX + 1)
       /\ (pc = "inner" /\ pc' = "loop") => tempo' > tempo]_vars


(* the integration method is none of those run() has a branch for *)
MetodoDesconhecido == tipo_simulacao \notin {"BE", "FE", "TRAP"}

(* C30 as stated: every run() of a circuit whose method is none of BE, FE, *)
(* TRAP fails with an error                                                *)
C30_UnknownMethodStated ==
    MetodoDesconhecido => \A k \in 1..Len(retorno) : retorno[k].erro # ""

(* C30: the constructor takes any method string; run() of a circuit whose  *)
(* method is none of BE, FE, TRAP records no sample and solves no stamped  *)
(* system: with tempo_total > 0 and ground among the nodes it stamps       *)
(* nothing and fails in the first pass, with LinAlgError from the all-zero *)
(* system or, when there are no unknowns and the empty system is solved,   *)
(* ValueError from the empty comparison; a circuit without ground fails    *)
(* before; with tempo_total <= 0 it returns the empty trajectory without   *)
(* error                                                                   *)
C30_UnknownMethod ==
    MetodoDesconhecido =>
        /\ pc \notin {"update", "caller"} =>
               (resultado.t = <<>> /\ resultado.resultado = <<>>)
        /\ com_hist = [i \in 1..Len(componentes) |-> <<>>]
        /\ iteracoes <= 1
        /\ \A k \in 1..Len(retorno) :
               IF ~TemTerra THEN retorno[k] = Lancar("MissingGround")
               ELSE IF tempo_total > 0
               THEN \/ retorno[k] = Lancar("LinAlgError")
                    \/ num_vars = 0 /\ retorno[k] = Lancar("ValueError")
               ELSE /\ retorno[k].ok
                    /\ retorno[k].erro = ""
                    /\ retorno[k].res.t = <<>>
        /\ pc = "done" => tempo_total <= 0
        /\ pc # "update"

(* run() of a circuit of two components with the method GEAR went through  *)
(* both without stamping and failed on the all-zero system                 *)
C30_Witness ==
    /\ tipo_simulacao = "GEAR"
    /\ Len(componentes) = 2
    /\ pc = "error"
    /\ erro = "LinAlgError"
    /\ com_passo[2] = <<passo, STEP_FACTOR>>
    /\ resultado.t = <<>>

============================================================================
